---- MODULE Spec2Model ----
(***************************************************************************)
(* Model of the On-Off ITFlow integration (custom_components/onoff_itflow):*)
(* the API client (itflow_api.py), the ticket view sensors and the bounded *)
(* attribute encoder (sensor.py), the document publishing button           *)
(* (button.py) and the status mapping (const.py).                          *)
(*                                                                         *)
(* Python values are tagged records, strings are sequences of one-char     *)
(* strings, so truthiness, int() coercion, str() and substring tests are   *)
(* computed the way the interpreter computes them.                         *)
(***************************************************************************)
EXTENDS Integers, Sequences, FiniteSets, TLC

VARIABLES
  \* ---- ITFlowClient._request / _get_session / close (itflow_api.py) ----
  _session,        \* self._session: NoSession or [id, closed]
  sessionsCreated, \* number of aiohttp.ClientSession() objects created so far
  inflight,        \* per caller: the request on the wire, or NoRequest
  returned,        \* per caller: value returned by the last _request call
  lastOutcome,     \* per caller: what the transport did to the last request
  answered,        \* per caller: the method of the request that outcome answered
  call_data,       \* per caller: the data argument of its call of _request in progress
  \* ---- ITFlowClient.update_document (itflow_api.py) ----
  ud_document_id,  \* the document_id argument of the last update_document call
  ud_result,       \* what that call handed back (a value or an escaping exception)
  ud_requests,     \* the requests that call issued, in order
  \* ---- ITFlowClient.update_ticket (itflow_api.py) ----
  ut_pc,           \* "idle", "closing" (awaiting close.php), "updating", "done"
  ut_args,         \* the arguments of the call in progress
  ut_requests,     \* the requests the call has issued, in order
  ut_responses,    \* what _request returned for each of them, in order
  ut_result,       \* what the call handed back
  \* ---- ITFlowUpdateDocumentButton.async_press (button.py) ----
  pub_pc,          \* "idle", "loop" (inside the for loop of line 153), "done"
  entry_data,      \* entry.data as the run found it: the document id configured for each kind
  kind_idx,        \* position of the loop in doc_config
  updates_successful,
  updates_failed,
  kind_outcome,    \* per kind: "pending", "skipped", "succeeded" or "failed"
  kind_requests,   \* per kind: the requests update_document issued for it
  kind_raised,     \* per kind: an exception reached the except of line 188
  last_document_update, \* hass.data[DOMAIN][entry_id]["last_document_update"] is set
  stamp_writes,    \* writes of last_document_update in the current run
  \* ---- a ticket view sensor's async_update (sensor.py) ----
  ag_pc,           \* "idle", "fetching" (awaiting a get_tickets call), "done"
  ag_view,         \* which view's sensor is polled
  ag_calls,        \* the status arguments of the get_tickets calls issued, in order
  all_tickets,     \* the local list the pass merges into
  _tickets,        \* the sensor's stored records
  _attr_native_value,
  ag_first,        \* per ticket id: the first acceptable record examined with that id
  ag_dropped,      \* an acceptable record was dropped because its id was already admitted
  ag_refused,      \* a record carrying the very status text its bucket was queried for was refused
  ag_partial,      \* a bucket that raised had already appended records
  ag_aborted,      \* the outer except of the pass ran
  \* ---- build_ticket_attributes_with_size_check (sensor.py) ----
  enc_pc,          \* "idle", "returned"
  enc_tickets,     \* the tickets argument
  enc_include,     \* the include_tickets_array argument
  enc_attributes,  \* what the call returned
  \* ---- map_ticket_status (const.py) ----
  ms_pc,           \* "idle", "returned"
  ms_status,       \* the status argument
  ms_result,       \* what the call handed back
  \* ---- poll cycles of one view sensor (sensor.py): async_update calls that
  \*      may overlap; the sensor is the one of ag_view and its fields are
  \*      _tickets and _attr_native_value above ----
  poll_pc,         \* per cycle slot: "idle", "fetching" (suspended in a get_tickets call)
  poll_calls,      \* per cycle slot: position in the bucket list
  poll_tickets,    \* per cycle slot: the local list of the cycle
  poll_last,       \* how the cycle that ended last ended: "none", "unavailable", "stored", "aborted"
  \* ---- extra_state_attributes of the view sensors (sensor.py) ----
  exp_pc,          \* "idle", "returned"
  exp_view,        \* the sensor whose attributes the host reads
  exp_tickets,     \* the sensor's _tickets at that moment
  exp_attributes,  \* the mapping the property returned
  \* ---- successive poll cycles of one view sensor (sensor.py), one after the
  \*      other, on the sensor fields _tickets and _attr_native_value ----
  rf_pc,           \* "idle", "fetching", "ended"
  rf_calls,        \* position in the bucket list
  rf_tickets,      \* the local list of the cycle
  rf_seen,         \* the records the successful responses of the cycle held
  rf_failed,       \* every get_tickets call of the cycle returned a failure
  rf_before,       \* the length of _tickets when the cycle started
  \* ---- ITFlowTicketSensor.async_set_ticket_data (sensor.py): calls that may
  \*      overlap, and the reset tasks they schedule ----
  set_pc,          \* per call: "idle", "creating" (suspended in the service call),
                   \* "sleeping" (its reset task is in asyncio.sleep), "done"
  ticket_native_value, \* the ticket sensor's _attr_native_value
  _ticket_subject  \* the call whose subject, details and priority the sensor holds, or 0

reqVars == <<_session, sessionsCreated, inflight, returned, lastOutcome, answered, call_data>>
udVars == <<ud_document_id, ud_result, ud_requests>>
utVars == <<ut_pc, ut_args, ut_requests, ut_responses, ut_result>>
pubVars == <<pub_pc, entry_data, kind_idx, updates_successful, updates_failed, kind_outcome,
             kind_requests, kind_raised, last_document_update, stamp_writes>>

aggVars == <<ag_pc, ag_view, ag_calls, all_tickets, _tickets, _attr_native_value,
             ag_first, ag_dropped, ag_refused, ag_partial, ag_aborted>>

encVars == <<enc_pc, enc_tickets, enc_include, enc_attributes>>

msVars == <<ms_pc, ms_status, ms_result>>

pollVars == <<poll_pc, poll_calls, poll_tickets, poll_last>>

expVars == <<exp_pc, exp_view, exp_tickets, exp_attributes>>

rfVars == <<rf_pc, rf_calls, rf_tickets, rf_seen, rf_failed, rf_before>>

tsVars == <<set_pc, ticket_native_value, _ticket_subject>>

vars == <<reqVars, udVars, utVars, pubVars, aggVars, encVars, msVars, pollVars, expVars, rfVars,
          tsVars>>

\* What each component's actions leave alone.
notReqVars == <<tsVars, udVars, utVars, pubVars, aggVars, encVars, msVars, pollVars, expVars, rfVars>>
notUdVars == <<tsVars, reqVars, utVars, pubVars, aggVars, encVars, msVars, pollVars, expVars, rfVars>>
notUtVars == <<tsVars, reqVars, udVars, pubVars, aggVars, encVars, msVars, pollVars, expVars, rfVars>>
notPubVars == <<tsVars, reqVars, udVars, utVars, aggVars, encVars, msVars, pollVars, expVars, rfVars>>
notAggVars == <<tsVars, reqVars, udVars, utVars, pubVars, encVars, msVars, pollVars, expVars, rfVars>>
notEncVars == <<tsVars, reqVars, udVars, utVars, pubVars, aggVars, msVars, pollVars, expVars, rfVars>>
notMsVars == <<tsVars, reqVars, udVars, utVars, pubVars, aggVars, encVars, pollVars, expVars, rfVars>>
notExpVars == <<tsVars, reqVars, udVars, utVars, pubVars, aggVars, encVars, msVars, pollVars, rfVars>>
notRfVars == <<tsVars, reqVars, udVars, utVars, pubVars, encVars, msVars, pollVars, expVars,
               ag_pc, ag_calls, all_tickets, ag_first, ag_dropped, ag_refused, ag_partial,
               ag_aborted>>
notPollVars == <<tsVars, reqVars, udVars, utVars, pubVars, encVars, msVars, expVars, rfVars,
                 ag_pc, ag_calls, all_tickets, ag_first, ag_dropped, ag_refused, ag_partial,
                 ag_aborted>>
notTsVars == <<reqVars, udVars, utVars, pubVars, aggVars, encVars, msVars, pollVars, expVars,
               rfVars>>

(***************************************************************************)
(* Bounds of the model.                                                    *)
(***************************************************************************)
MaxCallers == 2
MaxSessions == 2
MaxIdLen == 2
MaxTicketId == 2
MaxTickets == 2
MaxRecords == 40
MaxStatusLen == 2
MaxCycles == 2
MaxPollTickets == 1
MaxSetCalls == 3

(***************************************************************************)
(* Python values.                                                          *)
(***************************************************************************)
PyNone == [t |-> "none"]
PyBool(b) == [t |-> "bool", b |-> b]
PyInt(i) == [t |-> "int", i |-> i]
PyStr(s) == [t |-> "str", s |-> s]
PyList(l) == [t |-> "list", l |-> l]
PyDict(d) == [t |-> "dict", d |-> d]

\* bool(v): the truth value Python gives v in `if v` / `not v`.
Truthy(v) ==
  CASE v.t = "none" -> FALSE
    [] v.t = "bool" -> v.b
    [] v.t = "int" -> v.i # 0
    [] v.t = "str" -> Len(v.s) > 0
    [] v.t = "list" -> Len(v.l) > 0
    [] v.t = "dict" -> DOMAIN v.d # {}
    [] OTHER -> TRUE

\* d.get(key, default) on a dict value.
DictGet(v, key, default) == IF key \in DOMAIN v.d THEN v.d[key] ELSE default

\* `sub in s` for strings.
Contains(s, sub) ==
  \E i \in 1..(Len(s) - Len(sub) + 1) : SubSeq(s, i, i + Len(sub) - 1) = sub

DigitChars == <<"0", "1", "2", "3", "4", "5", "6", "7", "8", "9">>

RECURSIVE NatToStr(_)
NatToStr(n) ==
  IF n < 10 THEN <<DigitChars[n + 1]>>
  ELSE NatToStr(n \div 10) \o <<DigitChars[(n % 10) + 1]>>

\* str(i) for an int.
IntToStr(i) == IF i < 0 THEN <<"-">> \o NatToStr(-i) ELSE NatToStr(i)

\* str(v) as used on message values.
PyStrOf(v) ==
  CASE v.t = "str" -> v.s
    [] v.t = "int" -> IntToStr(v.i)
    [] v.t = "none" -> <<"N", "o", "n", "e">>
    [] v.t = "bool" -> IF v.b THEN <<"T", "r", "u", "e">> ELSE <<"F", "a", "l", "s", "e">>
    [] OTHER -> <<"{", "}">>

(***************************************************************************)
(* What a Python call hands back: a value, or an exception that escapes.   *)
(***************************************************************************)
Returns(v) == [raised |-> FALSE, value |-> v]
Raises(exc) == [raised |-> TRUE, exc |-> exc]

\* {"success": False, "message": msg}
FailureEnvelope(msg) == PyDict([success |-> PyBool(FALSE), message |-> PyStr(msg)])

(***************************************************************************)
(* ITFlowClient._request                                                   *)
(***************************************************************************)
ApiKey == PyStr(<<"k">>)
ServerUrl == <<"s">>

NoSession == [id |-> 0, closed |-> TRUE]
NoRequest == [method |-> "none"]
NoResult == [raised |-> FALSE, value |-> PyNone]
NoOutcome == [kind |-> "none"]

\* _get_session as it would be if it tested only `self._session is None`
_get_sessionKeepingClosed(session, created) ==
  IF session = NoSession THEN [id |-> created + 1, closed |-> FALSE] ELSE session

\* _get_session: a new ClientSession when there is none or it is closed.
_get_session(session, created) ==
  IF session = NoSession \/ session.closed
  THEN [id |-> created + 1, closed |-> FALSE]
  ELSE session

\* the parameters as they would be if the client's api_key were always written
WithApiKeyOverwriting(data) ==
  LET d == IF data = PyNone THEN <<>> ELSE data.d
  IN ("api_key" :> ApiKey) @@ d

\* lines 62-69 / 85-86: data defaults to {} and api_key is added when absent.
WithApiKey(data) ==
  LET d == IF data = PyNone THEN <<>> ELSE data.d
  IN IF "api_key" \in DOMAIN d THEN d ELSE d @@ ("api_key" :> ApiKey)

\* What is put on the wire: GET sends the parameters as the query string,
\* anything else sends them as a JSON body with a JSON content type.
Wire(session, endpoint, method, data) ==
  IF method = "GET"
  THEN [method |-> "GET", url |-> ServerUrl \o endpoint, session |-> session.id,
        params |-> WithApiKey(data), body |-> <<>>, contentType |-> "none"]
  ELSE [method |-> "POST", url |-> ServerUrl \o endpoint, session |-> session.id,
        params |-> <<>>, body |-> WithApiKey(data), contentType |-> "application/json"]

\* Transport outcomes of one request.
ClientErrorOutcome(text) == [kind |-> "ClientError", text |-> text]
ExceptionOutcome(text) == [kind |-> "Exception", text |-> text]
ResponseOutcome(status, text, isJson, json) ==
  [kind |-> "Response", status |-> status, text |-> text, isJson |-> isJson, json |-> json]

HttpPrefix == <<"H", "T", "T", "P", " ">>

\* the classification as it would be if the body were parsed before the
\* status is looked at
RequestResultJsonFirst(outcome) ==
  IF outcome.kind = "Response"
  THEN IF outcome.isJson THEN Returns(outcome.json)
       ELSE IF outcome.status >= 400
            THEN Returns(FailureEnvelope(HttpPrefix \o IntToStr(outcome.status) \o <<":", " ">> \o outcome.text))
            ELSE Returns(FailureEnvelope(outcome.text))
  ELSE Returns(FailureEnvelope(outcome.text))

RequestResultReraise(outcome) ==
  IF outcome.kind = "Response"
  THEN IF outcome.status >= 400
       THEN Returns(FailureEnvelope(HttpPrefix \o IntToStr(outcome.status) \o <<":", " ">> \o outcome.text))
       ELSE IF outcome.isJson THEN Returns(outcome.json)
            ELSE Returns(FailureEnvelope(outcome.text))
  ELSE IF outcome.kind = "ClientError" THEN Returns(FailureEnvelope(outcome.text))
       ELSE Raises("Exception")

\* lines 65-108: the value _request returns for a transport outcome.
RequestResult(outcome) ==
  IF outcome.kind = "Response"
  THEN IF outcome.status >= 400
       THEN Returns(FailureEnvelope(HttpPrefix \o IntToStr(outcome.status) \o <<":", " ">> \o outcome.text))
       ELSE IF outcome.isJson THEN Returns(outcome.json)
            ELSE Returns(FailureEnvelope(outcome.text))
  ELSE Returns(FailureEnvelope(outcome.text))

(***************************************************************************)
(* Specification of the gateway: callers issue requests, the transport     *)
(* answers them, and the session may be closed at any time.                *)
(***************************************************************************)
Callers == 1..MaxCallers

ReadEndpoint == <<"/tickets/read.php">>
CloseEndpoint == <<"/tickets/close.php">>
UpdateEndpoint == <<"/tickets/update.php">>
DocumentUpdateEndpoint == <<"/documents/update.php">>

ClientId == PyStr(<<"7">>)
PyObject == [t |-> "object"]

RequestEndpoints == {ReadEndpoint, DocumentUpdateEndpoint}
RequestMethods == {"GET", "POST"}
RequestData ==
  {PyNone,
   PyDict([client_id |-> ClientId]),
   PyDict([client_id |-> ClientId, api_key |-> PyStr(<<"c">>)]),
   PyDict([client_id |-> PyObject])}

TextRefused == <<"r", "e", "f", "u", "s", "e", "d">>
TextHtml == <<"<", "h", ">">>
TextNotFound == <<"n", "f">>
TextUnserializable == <<"T", "y", "p", "e">>
TextJson == <<"{", "}">>

SuccessBody == PyDict([success |-> PyBool(TRUE), data |-> PyList(<<>>)])
NoSuccessBody == PyDict([data |-> PyList(<<>>)])
ArrayBody == PyList(<<>>)

RequestOutcomes ==
  {ClientErrorOutcome(TextRefused),
   ExceptionOutcome(<<>>),
   ResponseOutcome(200, <<>>, TRUE, SuccessBody),
   ResponseOutcome(200, <<>>, TRUE, NoSuccessBody),
   ResponseOutcome(200, <<>>, TRUE, ArrayBody),
   ResponseOutcome(200, TextHtml, FALSE, PyNone),
   ResponseOutcome(404, TextNotFound, FALSE, PyNone),
   ResponseOutcome(500, TextJson, TRUE, SuccessBody)}

\* json.dumps(data) / query-string encoding fails on a value that is no JSON scalar.
Serializable(data) ==
  data = PyNone \/ \A k \in DOMAIN data.d : data.d[k] # PyObject

(***************************************************************************)
(* int(v) as Python computes it for the values a document id can take.     *)
(***************************************************************************)
IsDigit(ch) == \E k \in 1..10 : DigitChars[k] = ch
DigitValue(ch) == (CHOOSE k \in 1..10 : DigitChars[k] = ch) - 1

RECURSIVE LStrip(_)
LStrip(s) == IF Len(s) > 0 /\ Head(s) = " " THEN LStrip(Tail(s)) ELSE s

RECURSIVE RStrip(_)
RStrip(s) ==
  IF Len(s) > 0 /\ s[Len(s)] = " " THEN RStrip(SubSeq(s, 1, Len(s) - 1)) ELSE s

RECURSIVE DigitsValue(_, _)
DigitsValue(s, acc) ==
  IF Len(s) = 0 THEN acc ELSE DigitsValue(Tail(s), 10 * acc + DigitValue(Head(s)))

IntOk(i) == [ok |-> TRUE, i |-> i]
IntError(exc) == [ok |-> FALSE, exc |-> exc]

\* int(s) for a string: surrounding whitespace, an optional sign, decimal digits.
ParseInt(s) ==
  LET t == RStrip(LStrip(s))
      signed == Len(t) > 0 /\ t[1] \in {"-", "+"}
      digits == IF signed THEN Tail(t) ELSE t
  IN IF Len(digits) = 0 \/ \E k \in 1..Len(digits) : ~IsDigit(digits[k])
     THEN IntError("ValueError")
     ELSE IF signed /\ t[1] = "-" THEN IntOk(-DigitsValue(digits, 0))
          ELSE IntOk(DigitsValue(digits, 0))

PyIntOf(v) ==
  CASE v.t = "int" -> IntOk(v.i)
    [] v.t = "bool" -> IntOk(IF v.b THEN 1 ELSE 0)
    [] v.t = "str" -> ParseInt(v.s)
    [] OTHER -> IntError("TypeError")

(***************************************************************************)
(* ITFlowClient.update_document                                            *)
(***************************************************************************)
Request(endpoint, method, data) == [endpoint |-> endpoint, method |-> method, data |-> data]

MsgDocumentIdRequired == <<"document_id is required">>
MsgInvalidDocumentId == <<"Invalid document_id: ">>

\* lines 709-720: document_id and client_id always, the other fields when truthy.
DocumentData(doc_id_int, document_name, document_content, document_description) ==
  [document_id |-> PyStr(IntToStr(doc_id_int)), client_id |-> PyStr(PyStrOf(ClientId))]
  @@ (IF Truthy(document_name) THEN [document_name |-> PyStr(PyStrOf(document_name))] ELSE <<>>)
  @@ (IF Truthy(document_description)
      THEN [document_description |-> PyStr(PyStrOf(document_description))] ELSE <<>>)
  @@ (IF Truthy(document_content)
      THEN [document_content |-> PyStr(PyStrOf(document_content))] ELSE <<>>)

\* The call's result and the requests it issued; outcome is what the transport
\* does to the request if one is sent.
update_document_unvalidated(document_id, document_name, document_content, document_description, outcome) ==
  LET coerced == PyIntOf(document_id)
  IN IF ~Truthy(document_id)
     THEN [ret |-> Returns(FailureEnvelope(MsgDocumentIdRequired)), requests |-> <<>>]
     ELSE IF ~coerced.ok
     THEN [ret |-> Returns(FailureEnvelope(MsgInvalidDocumentId \o PyStrOf(document_id))),
           requests |-> <<>>]
     ELSE LET result == RequestResult(outcome)
              sent == <<Request(DocumentUpdateEndpoint, "POST",
                          PyDict(DocumentData(coerced.i, document_name, document_content,
                                              document_description)))>>
          IN IF result.value.t # "dict"
             THEN [ret |-> Raises("AttributeError"), requests |-> sent]
             ELSE [ret |-> result, requests |-> sent]

update_document(document_id, document_name, document_content, document_description, outcome) ==
  LET coerced == PyIntOf(document_id)
  IN IF ~Truthy(document_id)
     THEN [ret |-> Returns(FailureEnvelope(MsgDocumentIdRequired)), requests |-> <<>>]
     ELSE IF ~coerced.ok \/ coerced.i <= 0
     THEN [ret |-> Returns(FailureEnvelope(MsgInvalidDocumentId \o PyStrOf(document_id))),
           requests |-> <<>>]
     ELSE LET result == RequestResult(outcome)
              sent == <<Request(DocumentUpdateEndpoint, "POST",
                          PyDict(DocumentData(coerced.i, document_name, document_content,
                                              document_description)))>>
          IN IF result.value.t # "dict"
             THEN [ret |-> Raises("AttributeError"), requests |-> sent]
             ELSE [ret |-> result, requests |-> sent]

InitRequest ==
  /\ _session = NoSession
  /\ sessionsCreated = 0
  /\ inflight = [c \in Callers |-> NoRequest]
  /\ returned = [c \in Callers |-> NoResult]
  /\ lastOutcome = [c \in Callers |-> NoOutcome]
  /\ answered = [c \in Callers |-> "none"]
  /\ call_data = [c \in Callers |-> PyNone]

\* _request up to the point where the request is on the wire (lines 56-71 / 92).
RequestSend(c, endpoint, method, data) ==
  LET session == _get_session(_session, sessionsCreated)
  IN /\ inflight[c] = NoRequest
     /\ session.id <= MaxSessions
     /\ _session' = session
     /\ sessionsCreated' = IF session = _session THEN sessionsCreated ELSE sessionsCreated + 1
     /\ IF Serializable(data)
        THEN /\ call_data' = [call_data EXCEPT ![c] = data]
             /\ inflight' = [inflight EXCEPT ![c] = Wire(session, endpoint, method, data)]
             /\ returned' = [returned EXCEPT ![c] = NoResult]
             /\ lastOutcome' = [lastOutcome EXCEPT ![c] = NoOutcome]
             /\ answered' = [answered EXCEPT ![c] = "none"]
        ELSE /\ inflight' = inflight
             /\ returned' = [returned EXCEPT ![c] = RequestResult(ExceptionOutcome(TextUnserializable))]
             /\ lastOutcome' = [lastOutcome EXCEPT ![c] = ExceptionOutcome(TextUnserializable)]
             /\ answered' = [answered EXCEPT ![c] = "none"]
             /\ call_data' = call_data
     /\ UNCHANGED notReqVars

\* The transport answers (or fails) and _request returns (lines 71-108).
RequestReturn(c, outcome) ==
  /\ inflight[c] # NoRequest
  /\ inflight' = [inflight EXCEPT ![c] = NoRequest]
  /\ returned' = [returned EXCEPT ![c] = RequestResult(outcome)]
  /\ lastOutcome' = [lastOutcome EXCEPT ![c] = outcome]
  /\ answered' = [answered EXCEPT ![c] = inflight[c].method]
  /\ call_data' = [call_data EXCEPT ![c] = PyNone]
  /\ UNCHANGED <<_session, sessionsCreated>>
  /\ UNCHANGED notReqVars

\* ITFlowClient.close (lines 38-41).
Close ==
  /\ _session # NoSession
  /\ ~_session.closed
  /\ _session' = [_session EXCEPT !.closed = TRUE]
  /\ UNCHANGED <<sessionsCreated, inflight, returned, lastOutcome, answered, call_data>>
  /\ UNCHANGED notReqVars

NextRequest ==
  \/ \E c \in Callers, e \in RequestEndpoints, m \in RequestMethods, d \in RequestData :
       RequestSend(c, e, m, d)
  \/ \E c \in Callers, o \in RequestOutcomes : RequestReturn(c, o)
  \/ Close


(***************************************************************************)
(* Specification of update_document called on its own (by the services and *)
(* by the publish button), with every kind of document_id.                 *)
(***************************************************************************)
IdAlphabet == {"0", "1", "-", "+", " ", "a"}

RECURSIVE StringsUpTo(_, _)
StringsUpTo(alphabet, n) ==
  IF n = 0 THEN {<<>>}
  ELSE LET shorter == StringsUpTo(alphabet, n - 1)
       IN shorter \cup {s \o <<ch>> : s \in shorter, ch \in alphabet}

DocumentIds ==
  {PyNone, PyBool(TRUE), PyBool(FALSE), PyList(<<>>), PyList(<<PyInt(1)>>)}
  \cup {PyInt(i) : i \in -2..12}
  \cup {PyStr(s) : s \in StringsUpTo(IdAlphabet, MaxIdLen)}

OptionalTexts == {PyNone, PyStr(<<>>), PyStr(<<"x">>)}

ErrorBody == PyDict([success |-> PyBool(FALSE), message |-> PyStr(<<"n", "o">>)])

DocumentOutcomes ==
  {ClientErrorOutcome(TextRefused),
   ResponseOutcome(200, <<>>, TRUE, SuccessBody),
   ResponseOutcome(200, <<>>, TRUE, ErrorBody),
   ResponseOutcome(200, <<>>, TRUE, ArrayBody),
   ResponseOutcome(500, <<>>, FALSE, PyNone)}

NotCalled == [t |-> "notcalled"]

InitUpdateDocument ==
  /\ ud_document_id = NotCalled
  /\ ud_result = NoResult
  /\ ud_requests = <<>>

\* One call: validation, the request if any, and the value handed back.
CallUpdateDocument(document_id, name, content, description, outcome) ==
  LET call == update_document(document_id, name, content, description, outcome)
  IN /\ ud_document_id = NotCalled
     /\ ud_document_id' = document_id
     /\ ud_result' = call.ret
     /\ ud_requests' = call.requests
     /\ UNCHANGED notUdVars

\* The caller has taken the result; the next call starts afresh.
UpdateDocumentReturned ==
  /\ ud_document_id # NotCalled
  /\ ud_document_id' = NotCalled
  /\ ud_result' = NoResult
  /\ ud_requests' = <<>>
  /\ UNCHANGED notUdVars

NextUpdateDocument ==
  \/ \E id \in DocumentIds, name \in OptionalTexts, content \in OptionalTexts,
        description \in OptionalTexts, outcome \in DocumentOutcomes :
          CallUpdateDocument(id, name, content, description, outcome)
  \/ UpdateDocumentReturned

(***************************************************************************)
(* ITFlowClient.update_ticket                                              *)
(***************************************************************************)
UpperChars == <<"C", "L", "O", "S", "E", "D", "N", "P">>
LowerChars == <<"c", "l", "o", "s", "e", "d", "n", "p">>

\* str.lower(), one character.
LowerChar(ch) ==
  IF \E k \in 1..Len(UpperChars) : UpperChars[k] = ch
  THEN LowerChars[CHOOSE k \in 1..Len(UpperChars) : UpperChars[k] = ch]
  ELSE ch

Lower(s) == [k \in 1..Len(s) |-> LowerChar(s[k])]

StrClosed == <<"C", "l", "o", "s", "e", "d">>
StrClosedLower == <<"c", "l", "o", "s", "e", "d">>
StrClosedUpper == <<"C", "L", "O", "S", "E", "D">>
StrOpen == <<"O", "p", "e", "n">>
Str404 == <<"4", "0", "4">>

\* line 375: if status and str(status).lower() == "closed"
IsCloseRequest(status) == Truthy(status) /\ Lower(PyStrOf(status)) = StrClosedLower

\* lines 376-379
CloseData(ticket_id) == PyDict([client_id |-> ClientId, ticket_id |-> ticket_id])

\* lines 385-393
UpdateData(ticket_id, status, priority) ==
  PyDict([client_id |-> ClientId, ticket_id |-> ticket_id]
         @@ (IF Truthy(status) THEN [ticket_status |-> status] ELSE <<>>)
         @@ (IF Truthy(priority) THEN [ticket_priority |-> priority] ELSE <<>>))

ReturnsCloseResultAlways(result) == TRUE

ReturnsCloseResultUnless404Inverted(result) ==
  \/ Truthy(DictGet(result, "success", PyNone))
  \/ Contains(PyStrOf(DictGet(result, "message", PyStr(<<>>))), Str404)

\* the test as it would be if only a successful close were returned
ReturnsCloseResultOnSuccessOnly(result) ==
  Truthy(DictGet(result, "success", PyNone))

\* line 381: if result.get("success") or "404" not in str(result.get("message", ""))
ReturnsCloseResult(result) ==
  \/ Truthy(DictGet(result, "success", PyNone))
  \/ ~Contains(PyStrOf(DictGet(result, "message", PyStr(<<>>))), Str404)

TicketIds == {PyInt(1)}
TicketStatuses ==
  {PyNone, PyStr(<<>>), PyStr(StrClosed), PyStr(StrClosedLower), PyStr(StrClosedUpper),
   PyStr(StrOpen)}
TicketPriorities == {PyNone, PyStr(<<"H", "i", "g", "h">>)}

NotFoundBody == PyDict([success |-> PyBool(FALSE), message |-> PyStr(<<"n", "o", " ">> \o Str404)])
Success404Body == PyDict([success |-> PyBool(TRUE), message |-> PyStr(Str404)])
Int404Body == PyDict([success |-> PyBool(FALSE), message |-> PyInt(404)])
NullMessageBody == PyDict([success |-> PyBool(FALSE), message |-> PyNone])

TicketOutcomes ==
  {ClientErrorOutcome(TextRefused),
   ResponseOutcome(200, <<>>, TRUE, SuccessBody),
   ResponseOutcome(200, <<>>, TRUE, ErrorBody),
   ResponseOutcome(200, <<>>, TRUE, NoSuccessBody),
   ResponseOutcome(200, <<>>, TRUE, NotFoundBody),
   ResponseOutcome(200, <<>>, TRUE, Success404Body),
   ResponseOutcome(200, <<>>, TRUE, Int404Body),
   ResponseOutcome(200, <<>>, TRUE, NullMessageBody),
   ResponseOutcome(200, <<>>, TRUE, ArrayBody),
   ResponseOutcome(404, TextNotFound, FALSE, PyNone),
   ResponseOutcome(500, <<>>, FALSE, PyNone)}

NoArgs == [ticket_id |-> PyNone, status |-> PyNone, priority |-> PyNone, called |-> FALSE]

InitUpdateTicket ==
  /\ ut_pc = "idle"
  /\ ut_args = NoArgs
  /\ ut_requests = <<>>
  /\ ut_responses = <<>>
  /\ ut_result = NoResult

\* update_ticket up to its first await: close.php for a close, else update.php.
UpdateTicketCall(ticket_id, status, priority) ==
  /\ ut_pc = "idle"
  /\ ut_args' = [ticket_id |-> ticket_id, status |-> status, priority |-> priority,
                 called |-> TRUE]
  /\ IF IsCloseRequest(status)
     THEN /\ ut_requests' = <<Request(CloseEndpoint, "POST", CloseData(ticket_id))>>
          /\ ut_pc' = "closing"
     ELSE /\ ut_requests' = <<Request(UpdateEndpoint, "POST", UpdateData(ticket_id, status, priority))>>
          /\ ut_pc' = "updating"
  /\ UNCHANGED <<ut_responses, ut_result>>
  /\ UNCHANGED notUtVars

\* The close call returns (lines 380-382): its result is returned, or the
\* call falls through to the generic update (lines 384-395).
CloseReturns(outcome) ==
  LET result == RequestResult(outcome)
  IN /\ ut_pc = "closing"
     /\ ut_responses' = Append(ut_responses, result)
     /\ IF result.value.t # "dict"
        THEN /\ ut_result' = Raises("AttributeError")
             /\ ut_pc' = "done"
             /\ UNCHANGED ut_requests
        ELSE IF ReturnsCloseResult(result.value)
        THEN /\ ut_result' = result
             /\ ut_pc' = "done"
             /\ UNCHANGED ut_requests
        ELSE /\ ut_requests' = Append(ut_requests,
                  Request(UpdateEndpoint, "POST",
                          UpdateData(ut_args.ticket_id, ut_args.status, ut_args.priority)))
             /\ ut_pc' = "updating"
             /\ UNCHANGED ut_result
     /\ UNCHANGED ut_args
     /\ UNCHANGED notUtVars

\* The generic update call returns and its result is returned (line 395).
UpdateReturns(outcome) ==
  /\ ut_pc = "updating"
  /\ ut_responses' = Append(ut_responses, RequestResult(outcome))
  /\ ut_result' = RequestResult(outcome)
  /\ ut_pc' = "done"
  /\ UNCHANGED <<ut_args, ut_requests>>
  /\ UNCHANGED notUtVars

\* The caller has taken the result; the next call starts afresh.
UpdateTicketReturned ==
  /\ ut_pc = "done"
  /\ ut_pc' = "idle"
  /\ ut_args' = NoArgs
  /\ ut_requests' = <<>>
  /\ ut_responses' = <<>>
  /\ ut_result' = NoResult
  /\ UNCHANGED notUtVars

NextUpdateTicket ==
  \/ \E id \in TicketIds, status \in TicketStatuses, priority \in TicketPriorities :
       UpdateTicketCall(id, status, priority)
  \/ \E outcome \in TicketOutcomes : CloseReturns(outcome)
  \/ \E outcome \in TicketOutcomes : UpdateReturns(outcome)
  \/ UpdateTicketReturned

(***************************************************************************)
(* ITFlowUpdateDocumentButton.async_press: the publish run.                *)
(*                                                                         *)
(* The run imports CONF_DOC_ID_GENERAL .. CONF_DOC_ID_PROXMOX from the     *)
(* const module (lines 129-135) before it builds doc_config.  const.py     *)
(* defines none of them, so that import raises ImportError, which the      *)
(* except of line 205 logs: PressImportError.  Press and the loop actions  *)
(* are the run from line 137 on, as it goes once the five names exist.     *)
(***************************************************************************)
\* doc_config (lines 141-147), in insertion order.
DocKinds == <<"general", "automations", "integrations", "backup", "proxmox">>
DocMethods == <<"get_system_info", "get_automation_status", "get_integrations_info",
                "get_backup_status", "_get_proxmox_info">>
NumKinds == Len(DocKinds)
Kinds == 1..NumKinds

DocName(k) == PyStr(<<DocKinds[k]>>)
DocDescription == PyStr(<<"Manual update">>)

HtmlReport == PyStr(<<"<", "h", "1", ">">>)

\* What the content generator of a kind can return: the get_* methods catch
\* every exception and return a non-empty HTML text (the report or an error
\* paragraph); _get_proxmox_info returns "" when Proxmox is not enabled or on
\* any error.
Contents(k) ==
  IF DocMethods[k] = "_get_proxmox_info" THEN {PyStr(<<>>), HtmlReport}
  ELSE {HtmlReport}

AllContents == UNION {Contents(k) : k \in Kinds}

ConfiguredIds == {PyNone, PyInt(0), PyInt(-1), PyInt(2), PyStr(<<"a">>)}
Configurations == [Kinds -> ConfiguredIds]

PublishOutcomes ==
  {ClientErrorOutcome(TextRefused),
   ResponseOutcome(200, <<>>, TRUE, SuccessBody),
   ResponseOutcome(200, <<>>, TRUE, NoSuccessBody),
   ResponseOutcome(200, <<>>, TRUE, ArrayBody)}

ClassifyUpdateDroppingException(call) ==
  IF call.ret.raised THEN "skipped"
  ELSE IF Truthy(DictGet(call.ret.value, "success", PyNone)) THEN "succeeded"
  ELSE "failed"

\* the counting as it would be if an answer without success were logged but
\* not counted
ClassifyUpdateUncounted(call) ==
  IF call.ret.raised THEN "failed"
  ELSE IF Truthy(DictGet(call.ret.value, "success", PyNone)) THEN "succeeded"
  ELSE "uncounted"

\* lines 181-190: how one update_document call is counted.
ClassifyUpdate(call) ==
  IF call.ret.raised THEN "failed"
  ELSE IF Truthy(DictGet(call.ret.value, "success", PyNone)) THEN "succeeded"
  ELSE "failed"

NoConfiguration == [k \in Kinds |-> PyNone]

InitPublish ==
  /\ pub_pc = "idle"
  /\ entry_data = NoConfiguration
  /\ kind_idx = 1
  /\ updates_successful = 0
  /\ updates_failed = 0
  /\ kind_outcome = [k \in Kinds |-> "pending"]
  /\ kind_requests = [k \in Kinds |-> <<>>]
  /\ kind_raised = [k \in Kinds |-> FALSE]
  /\ last_document_update = FALSE
  /\ stamp_writes = 0

\* lines 107-127: no config entry, no entry data or no client: the run returns.
PressUnavailable ==
  /\ pub_pc = "idle"
  /\ pub_pc' = "done"
  /\ UNCHANGED <<entry_data, kind_idx, updates_successful, updates_failed, kind_outcome, kind_requests,
                 kind_raised, last_document_update, stamp_writes>>
  /\ UNCHANGED notPubVars

\* lines 129-135, 205-206: the import of the CONF_DOC_ID_* names fails.
PressImportError ==
  /\ pub_pc = "idle"
  /\ \E cfg \in Configurations : entry_data' = cfg
  /\ pub_pc' = "done"
  /\ UNCHANGED <<kind_idx, updates_successful, updates_failed, kind_outcome, kind_requests,
                 kind_raised, last_document_update, stamp_writes>>
  /\ UNCHANGED notPubVars

\* lines 137-150: the run reaches the loop with both counters at zero.
Press ==
  /\ pub_pc = "idle"
  /\ \E cfg \in Configurations : entry_data' = cfg
  /\ pub_pc' = "loop"
  /\ kind_idx' = 1
  /\ updates_successful' = 0
  /\ updates_failed' = 0
  /\ UNCHANGED <<kind_outcome, kind_requests, kind_raised, last_document_update, stamp_writes>>
  /\ UNCHANGED notPubVars

SkipUnconfiguredCountedFailed ==
  /\ pub_pc = "loop"
  /\ kind_idx <= NumKinds
  /\ ~Truthy(entry_data[kind_idx])
  /\ kind_outcome' = [kind_outcome EXCEPT ![kind_idx] = "skipped"]
  /\ updates_failed' = updates_failed + 1
  /\ kind_idx' = kind_idx + 1
  /\ UNCHANGED <<pub_pc, entry_data, updates_successful, kind_requests,
                 kind_raised, last_document_update, stamp_writes>>
  /\ UNCHANGED notPubVars

\* lines 154-159: if not doc_id: continue
SkipUnconfigured ==
  /\ pub_pc = "loop"
  /\ kind_idx <= NumKinds
  /\ ~Truthy(entry_data[kind_idx])
  /\ kind_outcome' = [kind_outcome EXCEPT ![kind_idx] = "skipped"]
  /\ kind_idx' = kind_idx + 1
  /\ UNCHANGED <<pub_pc, entry_data, updates_successful, updates_failed, kind_requests,
                 kind_raised, last_document_update, stamp_writes>>
  /\ UNCHANGED notPubVars

\* lines 163-167: the Proxmox generator returned nothing: continue
SkipNotApplicable(content) ==
  /\ pub_pc = "loop"
  /\ kind_idx <= NumKinds
  /\ Truthy(entry_data[kind_idx])
  /\ DocMethods[kind_idx] = "_get_proxmox_info"
  /\ content \in Contents(kind_idx)
  /\ ~Truthy(content)
  /\ kind_outcome' = [kind_outcome EXCEPT ![kind_idx] = "skipped"]
  /\ kind_idx' = kind_idx + 1
  /\ UNCHANGED <<pub_pc, entry_data, updates_successful, updates_failed, kind_requests,
                 kind_raised, last_document_update, stamp_writes>>
  /\ UNCHANGED notPubVars

\* lines 161-190: content is generated, update_document is called and counted.
UpdateKind(content, outcome) ==
  LET call == update_document(entry_data[kind_idx], DocName(kind_idx), content,
                              DocDescription, outcome)
      counted == ClassifyUpdate(call)
  IN /\ pub_pc = "loop"
     /\ kind_idx <= NumKinds
     /\ Truthy(entry_data[kind_idx])
     /\ content \in Contents(kind_idx)
     /\ DocMethods[kind_idx] = "_get_proxmox_info" => Truthy(content)
     /\ kind_requests' = [kind_requests EXCEPT ![kind_idx] = call.requests]
     /\ kind_raised' = [kind_raised EXCEPT ![kind_idx] = call.ret.raised]
     /\ kind_outcome' = [kind_outcome EXCEPT ![kind_idx] = counted]
     /\ updates_successful' = updates_successful + (IF counted = "succeeded" THEN 1 ELSE 0)
     /\ updates_failed' = updates_failed + (IF counted = "failed" THEN 1 ELSE 0)
     /\ kind_idx' = kind_idx + 1
     /\ UNCHANGED <<pub_pc, entry_data, last_document_update, stamp_writes>>
     /\ UNCHANGED notPubVars

\* the end of the run as it would be if the timestamp were written when the
\* loop arrives at the last kind, before that kind is processed
FinishRunBeforeLastKind ==
  /\ pub_pc = "loop"
  /\ kind_idx = NumKinds
  /\ last_document_update' = TRUE
  /\ stamp_writes' = stamp_writes + 1
  /\ pub_pc' = "done"
  /\ UNCHANGED <<entry_data, kind_idx, updates_successful, updates_failed, kind_outcome,
                 kind_requests, kind_raised>>
  /\ UNCHANGED notPubVars

\* lines 192-203: after the loop the timestamp is written and the run ends.
FinishRun ==
  /\ pub_pc = "loop"
  /\ kind_idx = NumKinds + 1
  /\ last_document_update' = TRUE
  /\ stamp_writes' = stamp_writes + 1
  /\ pub_pc' = "done"
  /\ UNCHANGED <<entry_data, kind_idx, updates_successful, updates_failed, kind_outcome,
                 kind_requests, kind_raised>>
  /\ UNCHANGED notPubVars

\* async_press has returned; the button can be pressed again.
PressReturned ==
  /\ pub_pc = "done"
  /\ pub_pc' = "idle"
  /\ entry_data' = NoConfiguration
  /\ kind_idx' = 1
  /\ updates_successful' = 0
  /\ updates_failed' = 0
  /\ kind_outcome' = [k \in Kinds |-> "pending"]
  /\ kind_requests' = [k \in Kinds |-> <<>>]
  /\ kind_raised' = [k \in Kinds |-> FALSE]
  /\ stamp_writes' = 0
  /\ UNCHANGED last_document_update
  /\ UNCHANGED notPubVars

NextPublish ==
  \/ PressUnavailable
  \/ PressImportError
  \/ Press
  \/ SkipUnconfigured
  \/ \E content \in AllContents : SkipNotApplicable(content)
  \/ \E content \in AllContents, outcome \in PublishOutcomes : UpdateKind(content, outcome)
  \/ FinishRun
  \/ PressReturned

(***************************************************************************)
(* const.map_ticket_status                                                 *)
(***************************************************************************)
StrNew == <<"N", "e", "w">>
StrOnHold == <<"O", "n", " ", "H", "o", "l", "d">>
StrResolved == <<"R", "e", "s", "o", "l", "v", "e", "d">>
StrUnknown == <<"U", "n", "k", "n", "o", "w", "n">>
StrWaiting == <<"W", "a", "i", "t", "i", "n", "g", ".", ".", ".">>
StrMaintenance == <<"M", "a", "i", "n", "t", "e", "n", "a", "n", "c", "e">>

TICKET_STATUS_MAP ==
  [k \in {<<"1">>, <<"2">>, <<"3">>, <<"4">>, StrNew, StrOpen, StrOnHold, StrResolved, StrClosed} |->
     CASE k = <<"1">> -> StrNew
       [] k = <<"2">> -> StrOpen
       [] k = <<"3">> -> StrOnHold
       [] k = <<"4">> -> StrResolved
       [] OTHER -> k]

\* str.isdigit(): every character is a digit, and there is at least one; it
\* holds for the decimal digits and also for digit characters that int() does
\* not read, such as the superscript two.
SuperscriptTwo == "²"
StrIsDigit(s) == Len(s) > 0 /\ \A k \in DOMAIN s : IsDigit(s[k]) \/ s[k] = SuperscriptTwo

map_ticket_status(status) ==
  LET status_str == PyStrOf(status)
      parsed == ParseInt(status_str)
  IN IF status = PyNone THEN Returns(StrUnknown)
     ELSE IF status_str = <<"5">> THEN Returns(StrClosed)
     ELSE IF StrIsDigit(status_str) /\ ~parsed.ok THEN Raises(parsed.exc)
     ELSE IF StrIsDigit(status_str) /\ parsed.i > 5 THEN Returns(StrWaiting)
     ELSE IF status_str \in DOMAIN TICKET_STATUS_MAP THEN Returns(TICKET_STATUS_MAP[status_str])
     ELSE Returns(status_str)

\* The statuses a ticket record of the service can carry: null, numbers, and
\* texts (the status names, and every text of up to MaxStatusLen characters).
StatusAlphabet == {"0", "4", "5", "6", "9", "+", " ", "a", SuperscriptTwo}

StatusInputs ==
  {PyNone}
  \cup {PyInt(i) : i \in -1..12}
  \cup {PyStr(s) : s \in StringsUpTo(StatusAlphabet, MaxStatusLen)}
  \cup {PyStr(s) : s \in {StrNew, StrOpen, StrOnHold, StrResolved, StrClosed, StrClosedLower,
                           StrMaintenance, <<"1">>, <<"2">>, <<"3">>, <<"9", "9", "9", "9">>}}

NoStatus == [t |-> "notcalled"]

InitMapStatus ==
  /\ ms_pc = "idle"
  /\ ms_status = NoStatus
  /\ ms_result = NoResult

\* a caller maps the status of a ticket record
MapStatusCall ==
  /\ ms_pc = "idle"
  /\ \E status \in StatusInputs :
       /\ ms_status' = status
       /\ ms_result' = map_ticket_status(status)
  /\ ms_pc' = "returned"
  /\ UNCHANGED notMsVars

MapStatusReturned ==
  /\ ms_pc = "returned"
  /\ ms_pc' = "idle"
  /\ ms_status' = NoStatus
  /\ ms_result' = NoResult
  /\ UNCHANGED notMsVars

NextMapStatus ==
  \/ MapStatusCall
  \/ MapStatusReturned

(***************************************************************************)
(* The ticket view sensors: ITFlowNewTicketsSensor, ITFlowOpenTicketsSensor,*)
(* ITFlowClosedTicketsSensor, ITFlowResolvedTicketsSensor and               *)
(* ITFlowMaintenanceTicketsSensor.  Their async_update methods differ only  *)
(* in the bucket list and in the test on raw_status.                        *)
(***************************************************************************)
Views == {"new", "open", "closed", "resolved", "maintenance"}

\* the `for status in [...]` list of each view
Buckets(view) ==
  CASE view = "new" -> <<"1", "New">>
    [] view = "open" -> <<"1", "2", "3", "New", "Open", "On Hold">>
    [] view = "closed" -> <<"5", "Closed">>
    [] view = "resolved" -> <<"4", "Resolved">>
    [] view = "maintenance" -> <<"7", "Maintenance">>

\* the admission test as it would read if the exact-code views also took the
\* textual name of their status
AcceptsStatusName(view, raw_status) ==
  CASE view = "new" -> raw_status \in {<<"1">>, StrNew}
    [] view = "open" -> raw_status \notin {<<"4">>, <<"5">>}
    [] view = "closed" -> raw_status \in {<<"5">>, StrClosed}
    [] view = "resolved" -> raw_status \in {<<"4">>, StrResolved}
    [] view = "maintenance" -> raw_status \in {<<"7">>, StrMaintenance}

\* the test on raw_status in each view's admission condition
Accepts(view, raw_status) ==
  CASE view = "new" -> raw_status = <<"1">>
    [] view = "open" -> raw_status \notin {<<"4">>, <<"5">>}
    [] view = "closed" -> raw_status = <<"5">>
    [] view = "resolved" -> raw_status = <<"4">>
    [] view = "maintenance" -> raw_status = <<"7">>

Merged(all, raised) == [all |-> all, raised |-> raised]

RECURSIVE MergeTicketsKeepingDuplicates(_, _, _)
MergeTicketsKeepingDuplicates(view, tickets, all) ==
  IF tickets = <<>> THEN Merged(all, FALSE)
  ELSE LET ticket == Head(tickets)
       IN IF ticket.t # "dict" THEN Merged(all, TRUE)
          ELSE LET ticket_id == DictGet(ticket, "ticket_id", PyNone)
                   raw_status == PyStrOf(DictGet(ticket, "ticket_status", PyStr(<<>>)))
               IN IF Accepts(view, raw_status) /\ Truthy(ticket_id)
                  THEN MergeTicketsKeepingDuplicates(view, Tail(tickets), Append(all, ticket))
                  ELSE MergeTicketsKeepingDuplicates(view, Tail(tickets), all)

\* The `for ticket in tickets` loop: ticket.get on an element that is no dict
\* raises, which leaves the loop with what was appended so far.
RECURSIVE MergeTickets(_, _, _)
MergeTickets(view, tickets, all) ==
  IF tickets = <<>> THEN Merged(all, FALSE)
  ELSE LET ticket == Head(tickets)
       IN IF ticket.t # "dict" THEN Merged(all, TRUE)
          ELSE LET ticket_id == DictGet(ticket, "ticket_id", PyNone)
                   raw_status == PyStrOf(DictGet(ticket, "ticket_status", PyStr(<<>>)))
               IN IF /\ Accepts(view, raw_status)
                     /\ Truthy(ticket_id)
                     /\ ~\E k \in DOMAIN all : DictGet(all[k], "ticket_id", PyNone) = ticket_id
                  THEN MergeTickets(view, Tail(tickets), Append(all, ticket))
                  ELSE MergeTickets(view, Tail(tickets), all)

\* The body of the inner try for one bucket's response.
MergeResponse(view, response, all) ==
  IF response.t # "dict" THEN Merged(all, TRUE)
  ELSE IF ~Truthy(DictGet(response, "success", PyNone)) THEN Merged(all, FALSE)
  ELSE LET tickets == DictGet(response, "data", PyList(<<>>))
       IN IF tickets.t = "list" THEN MergeTickets(view, tickets.l, all)
          ELSE Merged(all, TRUE)

\* Timestamps are compared as Python compares str: by code point, then length.
RECURSIVE StrLess(_, _)
StrLess(a, b) ==
  IF b = <<>> THEN FALSE
  ELSE IF a = <<>> THEN TRUE
  ELSE IF Head(a) = Head(b) THEN StrLess(Tail(a), Tail(b))
  ELSE DigitValue(Head(a)) < DigitValue(Head(b))

\* key=lambda x: x.get("ticket_created_at", "")
SortKey(ticket) == DictGet(ticket, "ticket_created_at", PyStr(<<>>))

\* Comparing a key that is no str with another key raises TypeError.
SortRaises(list) == Len(list) >= 2 /\ \E k \in DOMAIN list : SortKey(list[k]).t # "str"

\* list.sort(reverse=True) is stable: x goes behind every record whose key is
\* not smaller than its own.
InsertNewestFirst(sorted, x) ==
  LET behind == {k \in DOMAIN sorted : StrLess(SortKey(sorted[k]).s, SortKey(x).s)}
      at == IF behind = {} THEN Len(sorted) + 1
            ELSE CHOOSE k \in behind : \A j \in behind : k <= j
  IN SubSeq(sorted, 1, at - 1) \o <<x>> \o SubSeq(sorted, at, Len(sorted))

SortKeepingOrder(list) == list

RECURSIVE SortNewestFirst(_)
SortNewestFirst(list) ==
  IF list = <<>> THEN <<>>
  ELSE InsertNewestFirst(SortNewestFirst(SubSeq(list, 1, Len(list) - 1)), list[Len(list)])

\* What the server can put in a bucket response.
ServerTicketIds == {PyInt(i) : i \in 1..MaxTicketId}
\* The raw statuses of the tickets a view's bucket queries bring back: the
\* code the view asks for, its textual alias, and a code of another view.
RawStatuses(view) ==
  CASE view = "new" -> {PyStr(<<"1">>), PyStr(StrNew), PyStr(<<"5">>)}
    [] view = "open" -> {PyStr(<<"1">>), PyInt(5), PyStr(<<"7">>)}
    [] view = "closed" -> {PyInt(5), PyStr(StrClosed), PyStr(<<"1">>)}
    [] view = "resolved" -> {PyStr(<<"4">>), PyStr(StrResolved), PyStr(<<"1">>)}
    [] view = "maintenance" -> {PyStr(<<"7">>), PyStr(StrMaintenance), PyStr(<<"1">>)}

\* ticket_created_at: absent, JSON null, or a timestamp text
NoCreated == [t |-> "absent"]
CreatedValues == {NoCreated, PyNone, PyStr(<<"1">>), PyStr(<<"2">>)}
Ticket(id, status, created) ==
  PyDict([ticket_id |-> id, ticket_status |-> status]
         @@ (IF created = NoCreated THEN <<>> ELSE [ticket_created_at |-> created]))
TicketWithoutId(view) == PyDict([ticket_status |-> PyStr(<<Buckets(view)[1]>>)])
MalformedTicket == PyStr(<<"x">>)
ServerTickets(view) ==
  {Ticket(id, status, created) :
     id \in ServerTicketIds, status \in RawStatuses(view), created \in CreatedValues}
  \cup {TicketWithoutId(view), MalformedTicket}
TicketLists(view) == UNION {[1..n -> ServerTickets(view)] : n \in 0..MaxTickets}
NullDataBody == PyDict([success |-> PyBool(TRUE), data |-> PyNone])
TicketsBody(list) == PyDict([success |-> PyBool(TRUE), data |-> PyList(list)])
BucketOutcomes(view) ==
  {ClientErrorOutcome(TextRefused),
   ResponseOutcome(200, <<>>, TRUE, ArrayBody),
   ResponseOutcome(200, <<>>, TRUE, NoSuccessBody),
   ResponseOutcome(200, <<>>, TRUE, NullDataBody)}
  \cup {ResponseOutcome(200, <<>>, TRUE, TicketsBody(list)) : list \in TicketLists(view)}

\* the same, as a table over the views
BucketOutcomesOf == [view \in Views |-> BucketOutcomes(view)]

NoView == "none"
NoFirst == [id \in ServerTicketIds |-> PyNone]

InitAggregate ==
  /\ ag_pc = "idle"
  /\ ag_view = NoView
  /\ ag_calls = <<>>
  /\ all_tickets = <<>>
  /\ _tickets = <<>>
  /\ _attr_native_value = 0
  /\ ag_first = NoFirst
  /\ ag_dropped = FALSE
  /\ ag_refused = FALSE
  /\ ag_partial = FALSE
  /\ ag_aborted = FALSE

\* async_update returns at once: no entry data, or no client.
AsyncUpdateUnavailable ==
  /\ ag_pc = "idle"
  /\ \E view \in Views : ag_view' = view
  /\ ag_pc' = "done"
  /\ UNCHANGED <<ag_calls, all_tickets, _tickets, _attr_native_value, ag_first, ag_dropped, ag_refused,
                 ag_partial, ag_aborted>>
  /\ UNCHANGED notAggVars

\* async_update up to its first await: the first bucket's get_tickets call.
AsyncUpdate ==
  /\ ag_pc = "idle"
  /\ \E view \in Views :
       /\ ag_view' = view
       /\ ag_calls' = <<Buckets(view)[1]>>
  /\ ag_pc' = "fetching"
  /\ all_tickets' = <<>>
  /\ UNCHANGED <<_tickets, _attr_native_value, ag_first, ag_dropped, ag_refused, ag_partial,
                 ag_aborted>>
  /\ UNCHANGED notAggVars

\* The records of a response that the loop examines: all of them, or those
\* before the first element that is no dict.
RECURSIVE Examined(_)
Examined(tickets) ==
  IF tickets = <<>> \/ Head(tickets).t # "dict" THEN <<>>
  ELSE <<Head(tickets)>> \o Examined(Tail(tickets))

Admissible(view, ticket) ==
  /\ Accepts(view, PyStrOf(DictGet(ticket, "ticket_status", PyStr(<<>>))))
  /\ Truthy(DictGet(ticket, "ticket_id", PyNone))

ExaminedOf(response) ==
  IF /\ response.t = "dict"
     /\ Truthy(DictGet(response, "success", PyNone))
     /\ DictGet(response, "data", PyList(<<>>)).t = "list"
  THEN Examined(DictGet(response, "data", PyList(<<>>)).l)
  ELSE <<>>

FirstAfter(view, first, examined) ==
  [id \in ServerTicketIds |->
     IF first[id] # PyNone THEN first[id]
     ELSE LET hits == {k \in DOMAIN examined :
                         /\ Admissible(view, examined[k])
                         /\ DictGet(examined[k], "ticket_id", PyNone) = id}
          IN IF hits = {} THEN PyNone
             ELSE examined[CHOOSE k \in hits : \A j \in hits : k <= j]]

DroppedIn(view, first, examined) ==
  \E k \in DOMAIN examined :
    /\ Admissible(view, examined[k])
    /\ \/ first[DictGet(examined[k], "ticket_id", PyNone)] # PyNone
       \/ \E j \in 1..(k - 1) :
            /\ Admissible(view, examined[j])
            /\ DictGet(examined[j], "ticket_id", PyNone) = DictGet(examined[k], "ticket_id", PyNone)

\* the text of the status each bucket is queried for
StatusText(bucket) ==
  CASE bucket = "New" -> StrNew
    [] bucket = "Open" -> StrOpen
    [] bucket = "On Hold" -> StrOnHold
    [] bucket = "Closed" -> StrClosed
    [] bucket = "Resolved" -> StrResolved
    [] bucket = "Maintenance" -> StrMaintenance
    [] OTHER -> <<bucket>>

\* a record with an id whose raw status is literally the bucket's own status
\* fails the view's admission test
RefusedIn(view, bucket, examined) ==
  \E k \in DOMAIN examined :
    /\ PyStrOf(DictGet(examined[k], "ticket_status", PyStr(<<>>))) = StatusText(bucket)
    /\ Truthy(DictGet(examined[k], "ticket_id", PyNone))
    /\ ~Accepts(view, StatusText(bucket))

\* the next call as it would be if a bucket whose iteration raised were
\* queried once more
NextBucketRetrying(view, calls, raised) ==
  IF raised /\ (Len(calls) < 2 \/ calls[Len(calls) - 1] # calls[Len(calls)])
  THEN calls[Len(calls)]
  ELSE Buckets(view)[Len(calls) + 1]

\* the status of the next iteration of "for status in [...]": the except
\* clause of an iteration only logs and continues
NextBucket(view, calls, raised) == Buckets(view)[Len(calls) + 1]

\* A get_tickets call returns and the pass runs to its next await: the
\* response is merged, and then either the next bucket is queried or, after
\* the last bucket, the list is sorted and stored.
BucketResponds ==
  /\ ag_pc = "fetching"
  /\ \E outcome \in BucketOutcomesOf[ag_view] :
       LET response == RequestResult(outcome).value
           merged == MergeResponse(ag_view, response, all_tickets)
           examined == ExaminedOf(response)
           last == Len(ag_calls) = Len(Buckets(ag_view))
       IN /\ all_tickets' = merged.all
          /\ ag_first' = FirstAfter(ag_view, ag_first, examined)
          /\ ag_dropped' = (ag_dropped \/ DroppedIn(ag_view, ag_first, examined))
          /\ ag_refused' = (ag_refused \/ RefusedIn(ag_view, ag_calls[Len(ag_calls)], examined))
          /\ ag_partial' = (ag_partial \/ (merged.raised /\ merged.all # all_tickets))
          /\ IF ~last
             THEN /\ ag_calls' = Append(ag_calls, NextBucket(ag_view, ag_calls, merged.raised))
                  /\ UNCHANGED <<ag_pc, _tickets, _attr_native_value, ag_aborted>>
             ELSE /\ ag_pc' = "done"
                  /\ ag_aborted' = SortRaises(merged.all)
                  /\ _tickets' = IF SortRaises(merged.all) THEN <<>>
                                 ELSE SortNewestFirst(merged.all)
                  /\ _attr_native_value' = Len(_tickets')
                  /\ UNCHANGED ag_calls
  /\ UNCHANGED ag_view
  /\ UNCHANGED notAggVars

(***************************************************************************)
(* Poll cycles of one view sensor.  Each cycle is a call of async_update;  *)
(* a cycle started while another is suspended in get_tickets runs on its   *)
(* own local list and writes the same _tickets and _attr_native_value.     *)
(* Every action runs from one await of a cycle to its next await or to its *)
(* end.                                                                    *)
(***************************************************************************)
Cycles == 1..MaxCycles

\* the tail of a cycle after its last bucket: the sort and the assignments as
\* they would be if the outer except kept the count of what was fetched
CycleEndKeepingCount(all) ==
  IF SortRaises(all)
  THEN [_tickets |-> <<>>, _attr_native_value |-> Len(all), ended |-> "aborted"]
  ELSE [_tickets |-> SortNewestFirst(all), _attr_native_value |-> Len(SortNewestFirst(all)),
        ended |-> "stored"]

\* the tail of a cycle after its last bucket: the sort, then the assignments
\* of the try body, or those of the outer except when the sort raised
CycleEnd(all) ==
  IF SortRaises(all)
  THEN [_tickets |-> <<>>, _attr_native_value |-> 0, ended |-> "aborted"]
  ELSE [_tickets |-> SortNewestFirst(all), _attr_native_value |-> Len(SortNewestFirst(all)),
        ended |-> "stored"]

\* What the server answers in a poll cycle: tickets of the view's own status
\* code, with a timestamp or with a null one.
PollTickets(view) ==
  {Ticket(PyInt(1), PyStr(<<Buckets(view)[1]>>), PyStr(<<"1">>)),
   Ticket(PyInt(2), PyStr(<<Buckets(view)[1]>>), PyStr(<<"2">>)),
   Ticket(PyInt(2), PyStr(<<Buckets(view)[1]>>), PyNone),
   MalformedTicket}
PollOutcomes(view) ==
  {ClientErrorOutcome(TextRefused),
   ResponseOutcome(200, <<>>, TRUE, ArrayBody)}
  \cup {ResponseOutcome(200, <<>>, TRUE, TicketsBody(list)) :
          list \in UNION {[1..n -> PollTickets(view)] : n \in 0..MaxPollTickets}}
PollOutcomesOf == [view \in Views |-> PollOutcomes(view)]

InitPoll ==
  /\ poll_pc = [p \in Cycles |-> "idle"]
  /\ poll_calls = [p \in Cycles |-> 0]
  /\ poll_tickets = [p \in Cycles |-> <<>>]
  /\ poll_last = "none"

\* a cycle returns at once: no entry data, or no client
PollUnavailable(p) ==
  /\ poll_pc[p] = "idle"
  /\ poll_last' = "unavailable"
  /\ UNCHANGED <<poll_pc, poll_calls, poll_tickets, ag_view, _tickets, _attr_native_value>>
  /\ UNCHANGED notPollVars

\* a cycle starts and runs to its first await; the first cycle fixes which of
\* the five sensors this is
PollStart(p) ==
  /\ poll_pc[p] = "idle"
  /\ IF ag_view = NoView THEN \E view \in Views : ag_view' = view ELSE ag_view' = ag_view
  /\ poll_pc' = [poll_pc EXCEPT ![p] = "fetching"]
  /\ poll_calls' = [poll_calls EXCEPT ![p] = 1]
  /\ poll_tickets' = [poll_tickets EXCEPT ![p] = <<>>]
  /\ UNCHANGED <<poll_last, _tickets, _attr_native_value>>
  /\ UNCHANGED notPollVars

\* a get_tickets call of a cycle returns and the cycle runs to its next await
\* or, after the last bucket, to its end
PollBucketResponds(p) ==
  /\ poll_pc[p] = "fetching"
  /\ \E outcome \in PollOutcomesOf[ag_view] :
       LET merged == MergeResponse(ag_view, RequestResult(outcome).value, poll_tickets[p])
           end == CycleEnd(merged.all)
       IN IF poll_calls[p] < Len(Buckets(ag_view))
          THEN /\ poll_calls' = [poll_calls EXCEPT ![p] = @ + 1]
               /\ poll_tickets' = [poll_tickets EXCEPT ![p] = merged.all]
               /\ UNCHANGED <<poll_pc, poll_last, _tickets, _attr_native_value>>
          ELSE /\ poll_pc' = [poll_pc EXCEPT ![p] = "idle"]
               /\ poll_calls' = [poll_calls EXCEPT ![p] = 0]
               /\ poll_tickets' = [poll_tickets EXCEPT ![p] = <<>>]
               /\ _tickets' = end._tickets
               /\ _attr_native_value' = end._attr_native_value
               /\ poll_last' = end.ended
  /\ UNCHANGED ag_view
  /\ UNCHANGED notPollVars

NextPoll ==
  \/ \E p \in Cycles : PollUnavailable(p)
  \/ \E p \in Cycles : PollStart(p)
  \/ \E p \in Cycles : PollBucketResponds(p)

(***************************************************************************)
(* Poll cycles of one view sensor that follow one another: each cycle      *)
(* starts after the one before has ended.                                  *)
(***************************************************************************)
\* the records of a response that reports success
ReturnedIn(response) ==
  IF /\ response.t = "dict"
     /\ Truthy(DictGet(response, "success", PyNone))
     /\ DictGet(response, "data", PyList(<<>>)).t = "list"
  THEN {DictGet(response, "data", PyList(<<>>)).l[k] :
          k \in DOMAIN DictGet(response, "data", PyList(<<>>)).l}
  ELSE {}

\* the call returned {"success": False, ...}
CallFailed(response) ==
  response.t = "dict" /\ DictGet(response, "success", PyNone) = PyBool(FALSE)

\* the list a cycle starts from, as it would be if a cycle went on from the
\* list the sensor holds
StartingListKept(held) == held

\* all_tickets = [] at the start of the try body
StartingList(held) == <<>>

InitRefresh ==
  /\ rf_pc = "idle"
  /\ rf_calls = 0
  /\ rf_tickets = <<>>
  /\ rf_seen = {}
  /\ rf_failed = FALSE
  /\ rf_before = 0

\* a cycle starts (the client is available) and runs to its first await; the
\* first cycle fixes which of the five sensors this is
RefreshStart ==
  /\ rf_pc \in {"idle", "ended"}
  /\ IF ag_view = NoView THEN \E view \in Views : ag_view' = view ELSE ag_view' = ag_view
  /\ rf_pc' = "fetching"
  /\ rf_calls' = 1
  /\ rf_tickets' = StartingList(_tickets)
  /\ rf_seen' = {}
  /\ rf_failed' = TRUE
  /\ rf_before' = Len(_tickets)
  /\ UNCHANGED <<_tickets, _attr_native_value>>
  /\ UNCHANGED notRfVars

\* a get_tickets call of the cycle returns and the cycle runs to its next
\* await or, after the last bucket, to its end
RefreshBucketResponds ==
  /\ rf_pc = "fetching"
  /\ \E outcome \in PollOutcomesOf[ag_view] :
       LET response == RequestResult(outcome).value
           merged == MergeResponse(ag_view, response, rf_tickets)
           end == CycleEnd(merged.all)
       IN /\ rf_seen' = rf_seen \cup ReturnedIn(response)
          /\ rf_failed' = (rf_failed /\ CallFailed(response))
          /\ rf_tickets' = merged.all
          /\ IF rf_calls < Len(Buckets(ag_view))
             THEN /\ rf_calls' = rf_calls + 1
                  /\ UNCHANGED <<rf_pc, _tickets, _attr_native_value>>
             ELSE /\ rf_pc' = "ended"
                  /\ rf_calls' = rf_calls
                  /\ _tickets' = end._tickets
                  /\ _attr_native_value' = end._attr_native_value
  /\ UNCHANGED <<ag_view, rf_before>>
  /\ UNCHANGED notRfVars

NextRefresh ==
  \/ RefreshStart
  \/ RefreshBucketResponds

NextAggregate ==
  \/ AsyncUpdateUnavailable
  \/ AsyncUpdate
  \/ BucketResponds

(***************************************************************************)
(* sensor.build_ticket_attributes_with_size_check                          *)
(*                                                                         *)
(* A text field of a ticket is kept as its length and whether its          *)
(* characters are outside ASCII: json.dumps (ensure_ascii) writes an ASCII *)
(* character as itself and any other as a six character \uXXXX escape.     *)
(***************************************************************************)
InitialMaxTickets == 25
SizeThreshold == 14000
SizeCeiling == 16384
SliceLength == 100

Text(n, wide) == [len |-> n, wide |-> wide]

\* the slice as it would be if the text were kept whole
SliceNothing(s) == s

\* s[:100]
Slice(s) == [s EXCEPT !.len = IF @ > SliceLength THEN SliceLength ELSE @]

\* len(json.dumps(v)) for the kinds of value the mapping holds
JsonText(s) == 2 + s.len * (IF s.wide THEN 6 ELSE 1)
JsonChars(s) == 2 + Len(s)
JsonInt(i) == Len(IntToStr(i))
JsonValue(v) == IF v.t = "int" THEN JsonInt(v.i) ELSE JsonChars(PyStrOf(v))

\* "key": value
JsonItem(keyLen, valueLen) == keyLen + 2 + Len(": ") + valueLen

RECURSIVE SumOver(_, _)
SumOver(f, n) == IF n = 0 THEN 0 ELSE f[n] + SumOver(f, n - 1)

\* "{" or "[", the entries joined by ", ", "}" or "]"
JsonContainer(entries, count) == 2 + entries + (IF count > 0 THEN Len(", ") * (count - 1) ELSE 0)

\* the nine ticket_{idx + 1}_* entries of one ticket
FlatEntries(ticket, position) ==
  LET prefix == Len("ticket_") + Len(NatToStr(position))
      friendly_status == map_ticket_status(ticket.ticket_status).value
  IN JsonItem(prefix + Len("_id"), JsonValue(ticket.ticket_id))
     + JsonItem(prefix + Len("_subject"), JsonText(Slice(ticket.ticket_subject)))
     + JsonItem(prefix + Len("_priority"), JsonText(ticket.ticket_priority))
     + JsonItem(prefix + Len("_status"), JsonChars(friendly_status))
     + JsonItem(prefix + Len("_status_raw"), JsonValue(ticket.ticket_status))
     + JsonItem(prefix + Len("_created"), JsonText(ticket.ticket_created_at))
     + JsonItem(prefix + Len("_details"), JsonText(Slice(ticket.ticket_details)))
     + JsonItem(prefix + Len("_category"), JsonText(ticket.ticket_category))
     + JsonItem(prefix + Len("_assigned_to"), JsonText(ticket.ticket_assigned_to))

FlatEntryCount == 9
ArrayEntryCount == 16

\* one element of the "tickets" array
ArrayElement(ticket) ==
  LET friendly_status == map_ticket_status(ticket.ticket_status).value
      entries ==
        JsonItem(Len("id"), JsonValue(ticket.ticket_id))
        + JsonItem(Len("ticket_id"), JsonValue(ticket.ticket_id))
        + JsonItem(Len("number"), JsonValue(ticket.ticket_id))
        + JsonItem(Len("ticket_number"), JsonValue(ticket.ticket_id))
        + JsonItem(Len("subject"), JsonText(Slice(ticket.ticket_subject)))
        + JsonItem(Len("ticket_subject"), JsonText(Slice(ticket.ticket_subject)))
        + JsonItem(Len("priority"), JsonText(ticket.ticket_priority))
        + JsonItem(Len("ticket_priority"), JsonText(ticket.ticket_priority))
        + JsonItem(Len("status"), JsonChars(friendly_status))
        + JsonItem(Len("ticket_status"), JsonChars(friendly_status))
        + JsonItem(Len("created"), JsonText(ticket.ticket_created_at))
        + JsonItem(Len("details"), JsonText(Slice(ticket.ticket_details)))
        + JsonItem(Len("category"), JsonText(ticket.ticket_category))
        + JsonItem(Len("ticket_category"), JsonText(ticket.ticket_category))
        + JsonItem(Len("assigned_to"), JsonText(ticket.ticket_assigned_to))
        + JsonItem(Len("ticket_assigned_to"), JsonText(ticket.ticket_assigned_to))
  IN JsonContainer(entries, ArrayEntryCount)

\* datetime.now(timezone.utc).isoformat()
LastUpdatedLength == Len("2024-01-01T00:00:00.000000+00:00")

\* One pass of the while body: the mapping built for max_tickets, as the
\* counts it reports and the length of its json.dumps text.
BuildAttributes(tickets, include_tickets_array, max_tickets) ==
  LET shown == IF Len(tickets) < max_tickets THEN Len(tickets) ELSE max_tickets
      limited_tickets == SubSeq(tickets, 1, shown)
      arraySize == JsonContainer(SumOver([k \in 1..shown |-> ArrayElement(limited_tickets[k])], shown),
                                 shown)
      flat == SumOver([k \in 1..shown |-> FlatEntries(limited_tickets[k], k)], shown)
      summary == JsonItem(Len("total_tickets"), JsonInt(Len(tickets)))
                 + JsonItem(Len("displayed_tickets"), JsonInt(shown))
                 + JsonItem(Len("last_updated"), 2 + LastUpdatedLength)
      entries == (IF include_tickets_array THEN JsonItem(Len("tickets"), arraySize) ELSE 0)
                 + flat + summary
      count == (IF include_tickets_array THEN 1 ELSE 0) + FlatEntryCount * shown + 3
  IN [total_tickets |-> Len(tickets),
      displayed_tickets |-> shown,
      flattened |-> shown,
      ticket_ids |-> [k \in 1..shown |-> limited_tickets[k].ticket_id],
      tickets |-> IF include_tickets_array THEN shown ELSE -1,
      attr_size |-> JsonContainer(entries, count)]

\* the while loop as it would be if it lowered the cap by two at a time
RECURSIVE ShrinkToFitByTwo(_, _, _)
ShrinkToFitByTwo(tickets, include_tickets_array, max_tickets) ==
  LET attributes == BuildAttributes(tickets, include_tickets_array, max_tickets)
  IN IF attributes.attr_size < SizeThreshold THEN attributes
     ELSE IF max_tickets - 2 > 0
          THEN ShrinkToFitByTwo(tickets, include_tickets_array, max_tickets - 2)
          ELSE attributes

\* the while loop from max_tickets down
RECURSIVE ShrinkToFit(_, _, _)
ShrinkToFit(tickets, include_tickets_array, max_tickets) ==
  LET attributes == BuildAttributes(tickets, include_tickets_array, max_tickets)
  IN IF attributes.attr_size < SizeThreshold THEN attributes
     ELSE IF max_tickets - 1 > 0
          THEN ShrinkToFit(tickets, include_tickets_array, max_tickets - 1)
          ELSE attributes

\* the encoder as it would be if total_tickets counted the capped subset
EncodeCountingSubset(tickets, include_tickets_array) ==
  LET attributes == ShrinkToFit(tickets, include_tickets_array, InitialMaxTickets)
  IN [total_tickets |-> attributes.displayed_tickets,
      displayed_tickets |-> attributes.displayed_tickets,
      flattened |-> attributes.flattened,
      ticket_ids |-> attributes.ticket_ids,
      tickets |-> attributes.tickets,
      attr_size |-> attributes.attr_size]

build_ticket_attributes_with_size_check(tickets, include_tickets_array) ==
  ShrinkToFit(tickets, include_tickets_array, InitialMaxTickets)

\* Tickets as the views store them.
ShortTicket ==
  [ticket_id |-> PyInt(7), ticket_status |-> PyStr(<<"1">>),
   ticket_subject |-> Text(20, FALSE), ticket_priority |-> Text(6, FALSE),
   ticket_created_at |-> Text(19, FALSE), ticket_details |-> Text(60, FALSE),
   ticket_category |-> Text(8, FALSE), ticket_assigned_to |-> Text(10, FALSE)]
LongTicket ==
  [ticket_id |-> PyInt(1234), ticket_status |-> PyInt(7),
   ticket_subject |-> Text(300, TRUE), ticket_priority |-> Text(6, FALSE),
   ticket_created_at |-> Text(19, FALSE), ticket_details |-> Text(5000, TRUE),
   ticket_category |-> Text(20, FALSE), ticket_assigned_to |-> Text(30, TRUE)]
LongCategoryTicket ==
  [ticket_id |-> PyInt(1), ticket_status |-> PyStr(<<"2">>),
   ticket_subject |-> Text(20, FALSE), ticket_priority |-> Text(6, FALSE),
   ticket_created_at |-> Text(19, FALSE), ticket_details |-> Text(60, FALSE),
   ticket_category |-> Text(20000, FALSE), ticket_assigned_to |-> Text(10, FALSE)]
DetailedTicket ==
  [ticket_id |-> PyInt(1234), ticket_status |-> PyStr(<<"2">>),
   ticket_subject |-> Text(40, FALSE), ticket_priority |-> Text(6, FALSE),
   ticket_created_at |-> Text(19, FALSE), ticket_details |-> Text(500, FALSE),
   ticket_category |-> Text(7, FALSE), ticket_assigned_to |-> Text(2, FALSE)]
DetailedWideTicket ==
  [ticket_id |-> PyInt(1234), ticket_status |-> PyStr(<<"2">>),
   ticket_subject |-> Text(40, FALSE), ticket_priority |-> Text(6, FALSE),
   ticket_created_at |-> Text(19, FALSE), ticket_details |-> Text(500, TRUE),
   ticket_category |-> Text(7, FALSE), ticket_assigned_to |-> Text(2, FALSE)]
TicketProfiles == {ShortTicket, LongTicket, LongCategoryTicket, DetailedTicket, DetailedWideTicket}

\* n tickets: one of a profile first, the others of another.
TicketsOf(n, first, others) == [k \in 1..n |-> IF k = 1 THEN first ELSE others]

NoAttributes == [total_tickets |-> 0, displayed_tickets |-> 0, flattened |-> 0,
                 ticket_ids |-> <<>>, tickets |-> -1,
                 attr_size |-> 0]

InitEncode ==
  /\ enc_pc = "idle"
  /\ enc_tickets = <<>>
  /\ enc_include = FALSE
  /\ enc_attributes = NoAttributes

\* extra_state_attributes calls the encoder on the stored tickets.
EncodeCall ==
  /\ enc_pc = "idle"
  /\ \E n \in 0..MaxRecords, first \in TicketProfiles, others \in TicketProfiles,
        include_tickets_array \in BOOLEAN :
       /\ enc_tickets' = TicketsOf(n, first, others)
       /\ enc_include' = include_tickets_array
       /\ enc_attributes' = build_ticket_attributes_with_size_check(enc_tickets', enc_include')
  /\ enc_pc' = "returned"
  /\ UNCHANGED notEncVars

EncodeReturned ==
  /\ enc_pc = "returned"
  /\ enc_pc' = "idle"
  /\ enc_tickets' = <<>>
  /\ enc_include' = FALSE
  /\ enc_attributes' = NoAttributes
  /\ UNCHANGED notEncVars

(***************************************************************************)
(* extra_state_attributes of the five view sensors: what the host reads.   *)
(***************************************************************************)
ResolvedEntryCount == 10

\* ITFlowResolvedTicketsSensor.extra_state_attributes: the first 25 tickets,
\* ten entries each (the nine of the other views and ticket_{idx + 1}_resolved),
\* and the three summary entries
ResolvedAttributes(tickets) ==
  LET shown == IF Len(tickets) < InitialMaxTickets THEN Len(tickets) ELSE InitialMaxTickets
      limited_tickets == SubSeq(tickets, 1, shown)
      resolved(k) == JsonItem(Len("ticket_") + Len(NatToStr(k)) + Len("_resolved"),
                              JsonText(Text(0, FALSE)))
      flat == SumOver([k \in 1..shown |-> FlatEntries(limited_tickets[k], k) + resolved(k)], shown)
      summary == JsonItem(Len("total_tickets"), JsonInt(Len(tickets)))
                 + JsonItem(Len("displayed_tickets"), JsonInt(shown))
                 + JsonItem(Len("last_updated"), 2 + LastUpdatedLength)
  IN [total_tickets |-> Len(tickets),
      displayed_tickets |-> shown,
      flattened |-> shown,
      ticket_ids |-> [k \in 1..shown |-> limited_tickets[k].ticket_id],
      tickets |-> -1,
      attr_size |-> JsonContainer(flat + summary, ResolvedEntryCount * shown + 3)]

\* the property of each sensor
extra_state_attributes(view, tickets) ==
  IF view = "resolved" THEN ResolvedAttributes(tickets)
  ELSE build_ticket_attributes_with_size_check(tickets, FALSE)

InitExpose ==
  /\ exp_pc = "idle"
  /\ exp_view = NoView
  /\ exp_tickets = <<>>
  /\ exp_attributes = NoAttributes

\* the host reads the attributes of one of the sensors
ExposeCall ==
  /\ exp_pc = "idle"
  /\ \E view \in Views, n \in 0..MaxRecords, profile \in TicketProfiles :
       /\ exp_view' = view
       /\ exp_tickets' = TicketsOf(n, profile, profile)
       /\ exp_attributes' = extra_state_attributes(view, exp_tickets')
  /\ exp_pc' = "returned"
  /\ UNCHANGED notExpVars

ExposeReturned ==
  /\ exp_pc = "returned"
  /\ exp_pc' = "idle"
  /\ exp_view' = NoView
  /\ exp_tickets' = <<>>
  /\ exp_attributes' = NoAttributes
  /\ UNCHANGED notExpVars

NextExpose ==
  \/ ExposeCall
  \/ ExposeReturned

NextEncode ==
  \/ EncodeCall
  \/ EncodeReturned

(***************************************************************************)
(* The specifications: one per component, all from the same initial state. *)
(***************************************************************************)
(***************************************************************************)
(* ITFlowTicketSensor.async_set_ticket_data (sensor.py 1386-1420).  Calls  *)
(* of the coroutine may overlap: each is suspended in the create_ticket    *)
(* service call, and each schedules a reset task that sleeps 5 seconds.    *)
(* Every action runs from one await to the next.                           *)
(***************************************************************************)
SetCalls == 1..MaxSetCalls

StateReady == "Ready"
StateCreating == "Creating ticket..."
StateCreated == "Ticket created"
\* f"Error: {err}"
StateError(err) == "Error: " \o err

ServiceErrors == {"Service not found"}

\* __init__ (lines 1349-1360)
InitTicketSensor ==
  /\ set_pc = [c \in SetCalls |-> "idle"]
  /\ ticket_native_value = StateReady
  /\ _ticket_subject = 0

\* lines 1390-1406: the fields are set and the coroutine is suspended in the
\* blocking service call
SetTicketData(c) ==
  /\ set_pc[c] = "idle"
  /\ _ticket_subject' = c
  /\ ticket_native_value' = StateCreating
  /\ set_pc' = [set_pc EXCEPT ![c] = "creating"]
  /\ UNCHANGED notTsVars

\* lines 1407-1420: the service call returned; the reset task is created and
\* is suspended in asyncio.sleep(5)
CreateTicketReturns(c) ==
  /\ set_pc[c] = "creating"
  /\ ticket_native_value' = StateCreated
  /\ set_pc' = [set_pc EXCEPT ![c] = "sleeping"]
  /\ UNCHANGED _ticket_subject
  /\ UNCHANGED notTsVars

\* lines 1409-1420: the service call raised
CreateTicketRaises(c, err) ==
  /\ set_pc[c] = "creating"
  /\ ticket_native_value' = StateError(err)
  /\ set_pc' = [set_pc EXCEPT ![c] = "sleeping"]
  /\ UNCHANGED _ticket_subject
  /\ UNCHANGED notTsVars

\* lines 1415-1418: reset_state wakes up
ResetState(c) ==
  /\ set_pc[c] = "sleeping"
  /\ ticket_native_value' = StateReady
  /\ set_pc' = [set_pc EXCEPT ![c] = "done"]
  /\ UNCHANGED _ticket_subject
  /\ UNCHANGED notTsVars

NextTicketSensor ==
  \/ \E c \in SetCalls : SetTicketData(c)
  \/ \E c \in SetCalls : CreateTicketReturns(c)
  \/ \E c \in SetCalls, err \in ServiceErrors : CreateTicketRaises(c, err)
  \/ \E c \in SetCalls : ResetState(c)

Init ==
  /\ InitTicketSensor
  /\ InitRequest
  /\ InitUpdateDocument
  /\ InitUpdateTicket
  /\ InitPublish
  /\ InitAggregate
  /\ InitEncode
  /\ InitMapStatus
  /\ InitPoll
  /\ InitExpose
  /\ InitRefresh

SpecRequest == Init /\ [][NextRequest]_vars

SpecPublish == Init /\ [][NextPublish]_vars

SpecAggregate == Init /\ [][NextAggregate]_vars

SpecEncode == Init /\ [][NextEncode]_vars

SpecUpdateTicket == Init /\ [][NextUpdateTicket]_vars

SpecUpdateDocument == Init /\ [][NextUpdateDocument]_vars

SpecMapStatus == Init /\ [][NextMapStatus]_vars

SpecPoll == Init /\ [][NextPoll]_vars

SpecExpose == Init /\ [][NextExpose]_vars

SpecRefresh == Init /\ [][NextRefresh]_vars

SpecTicketSensor == Init /\ [][NextTicketSensor]_vars

(***************************************************************************)
(* C1: update_document issues no request to documents/update unless        *)
(* document_id coerces to an integer > 0: for a missing (None, empty),     *)
(* zero, negative or non-numeric id it returns a success=false envelope    *)
(* and issues nothing, and every request it issues carries the coerced     *)
(* positive id.                                                            *)
(***************************************************************************)
AllSpaces(s) == \A k \in 1..Len(s) : s[k] = " "
AllDigits(s) == Len(s) > 0 /\ \A k \in 1..Len(s) : s[k] \in {"0", "1", "2", "3", "4", "5", "6", "7", "8", "9"}

RECURSIVE Pow10(_)
Pow10(k) == IF k = 0 THEN 1 ELSE 10 * Pow10(k - 1)

RECURSIVE DecimalValue(_)
DecimalValue(s) ==
  IF Len(s) = 0 THEN 0
  ELSE DigitValue(s[1]) * Pow10(Len(s) - 1) + DecimalValue(Tail(s))

\* The ways to read s as spaces, an optional "+", decimal digits, spaces.
PositiveReadings(s) ==
  {DecimalValue(SubSeq(s, a + 1, b)) : <<a, b>> \in
     {ab \in (0..Len(s)) \X (0..Len(s)) :
        /\ ab[1] < ab[2]
        /\ AllDigits(SubSeq(s, ab[1] + 1, ab[2]))
        /\ AllSpaces(SubSeq(s, ab[2] + 1, Len(s)))
        /\ \/ AllSpaces(SubSeq(s, 1, ab[1]))
           \/ /\ ab[1] > 0
              /\ s[ab[1]] = "+"
              /\ AllSpaces(SubSeq(s, 1, ab[1] - 1))}}

\* The positive integer an id stands for, 0 when it stands for none.
PositiveIdOf(v) ==
  CASE v.t = "int" -> IF v.i > 0 THEN v.i ELSE 0
    [] v.t = "bool" -> IF v.b THEN 1 ELSE 0
    [] v.t = "str" ->
         IF \E n \in PositiveReadings(v.s) : n > 0
         THEN CHOOSE n \in PositiveReadings(v.s) : n > 0
         ELSE 0
    [] OTHER -> 0

C1_UpdateNeedsPositiveId ==
  ud_document_id # NotCalled =>
    LET n == PositiveIdOf(ud_document_id)
    IN /\ n = 0 =>
            /\ ud_requests = <<>>
            /\ ~ud_result.raised
            /\ ud_result.value.t = "dict"
            /\ DictGet(ud_result.value, "success", PyNone) = PyBool(FALSE)
       /\ \A k \in DOMAIN ud_requests :
            /\ n > 0
            /\ ud_requests[k].endpoint = DocumentUpdateEndpoint
            /\ ud_requests[k].data.d["document_id"] = PyStr(NatToStr(n))

\* A negative id given as a string was rejected locally.
C1_Witness ==
  /\ ud_document_id = PyStr(<<"-", "1">>)
  /\ ud_requests = <<>>
  /\ ud_result = Returns(FailureEnvelope(MsgInvalidDocumentId \o <<"-", "1">>))

(***************************************************************************)
(* C2: in a publish run, a kind whose configured document id is not a      *)
(* positive integer (0, negative, non-numeric) causes no remote call and   *)
(* is counted as failed, the failed counter going up by one for it.        *)
(***************************************************************************)
ConfiguredInvalid(v) == v # PyNone /\ PositiveIdOf(v) = 0

FailedKinds == {k \in Kinds : kind_outcome[k] = "failed"}

C2_InvalidIdCountedFailed ==
  pub_pc = "done" =>
    /\ updates_failed = Cardinality(FailedKinds)
    /\ \A k \in Kinds :
         ConfiguredInvalid(entry_data[k]) =>
           /\ kind_requests[k] = <<>>
           /\ k \in FailedKinds

(***************************************************************************)
(* C3: _request never raises: whatever the transport does, the call        *)
(* returns a value, and after a transport failure (a client error, a       *)
(* timeout or any other exception while sending or reading) that value is  *)
(* {"success": False, "message": <exception text>}.                        *)
(***************************************************************************)
TransportFailed(o) == o.kind \in {"ClientError", "Exception"}

C3_RequestNeverRaises ==
  \A c \in Callers :
    /\ ~returned[c].raised
    /\ TransportFailed(lastOutcome[c]) =>
         returned[c] = Returns(PyDict([success |-> PyBool(FALSE),
                                       message |-> PyStr(lastOutcome[c].text)]))

\* A timeout (an exception that is no aiohttp.ClientError) was turned into an envelope.
C3_Witness ==
  \E c \in Callers :
    /\ lastOutcome[c] = ExceptionOutcome(<<>>)
    /\ returned[c] = Returns(FailureEnvelope(<<>>))

(***************************************************************************)
(* C4: in every view's aggregation pass, whatever the buckets answer, the  *)
(* merged list and the stored result hold no two records with the same     *)
(* ticket id, and the record kept for an id is the first acceptable record *)
(* with that id that the pass examined, in bucket query order.             *)
(***************************************************************************)
IdOf(ticket) == DictGet(ticket, "ticket_id", PyNone)

NoDuplicateIds(list) ==
  \A j, k \in DOMAIN list : j # k => IdOf(list[j]) # IdOf(list[k])

AllFirstSeen(list) ==
  \A k \in DOMAIN list : IdOf(list[k]) \in ServerTicketIds /\ list[k] = ag_first[IdOf(list[k])]

C4_FirstSeenWins ==
  /\ NoDuplicateIds(all_tickets)
  /\ NoDuplicateIds(_tickets)
  /\ AllFirstSeen(all_tickets)
  /\ AllFirstSeen(_tickets)

\* The "new" view met an id a second time and stored exactly one record.
C4_Witness ==
  /\ ag_view = "new"
  /\ ag_pc = "done"
  /\ ag_calls = <<"1", "New">>
  /\ ag_dropped
  /\ Len(_tickets) = 1
  /\ _attr_native_value = 1

(***************************************************************************)
(* C5: for all inputs (any number of tickets, any field lengths, with or   *)
(* without the tickets array) the serialized size of the mapping that      *)
(* build_ticket_attributes_with_size_check returns is strictly below the   *)
(* size budget of 16384 bytes.                                             *)
(***************************************************************************)
C5_SizeBelowBudget ==
  enc_pc = "returned" => enc_attributes.attr_size < SizeCeiling

(***************************************************************************)
(* C6: every record in the result of the "open" view has a raw status in   *)
(* {1, 2, 3, New, Open, On Hold}; a ticket with any other raw status is    *)
(* never admitted, even when a bucket response contains it.                *)
(***************************************************************************)
OpenStatuses == {<<"1">>, <<"2">>, <<"3">>, <<"N", "e", "w">>, <<"O", "p", "e", "n">>,
                 <<"O", "n", " ", "H", "o", "l", "d">>}

RawStatusOf(ticket) == PyStrOf(DictGet(ticket, "ticket_status", PyStr(<<>>)))

C6_OpenViewOnlyOpenStatuses ==
  ag_view = "open" =>
    /\ \A k \in DOMAIN all_tickets : RawStatusOf(all_tickets[k]) \in OpenStatuses
    /\ \A k \in DOMAIN _tickets : RawStatusOf(_tickets[k]) \in OpenStatuses

(***************************************************************************)
(* C7: update_ticket(id, status="Closed") issues the call to the close     *)
(* endpoint before any other remote call; if the close response is a       *)
(* failure whose message indicates "not found" (404), the generic update   *)
(* endpoint is called next, carrying ticket_status="Closed", and the       *)
(* result of that call is what update_ticket returns.                      *)
(***************************************************************************)
IsFailure(result) ==
  /\ ~result.raised
  /\ result.value.t = "dict"
  /\ ~Truthy(DictGet(result.value, "success", PyNone))

Mentions404(result) ==
  /\ "message" \in DOMAIN result.value.d
  /\ Contains(PyStrOf(result.value.d["message"]), <<"4", "0", "4">>)

CloseAnswered == Len(ut_responses) >= 1

ClosedStatuses == {PyStr(StrClosed), PyStr(StrClosedLower), PyStr(StrClosedUpper)}

GenericUpdateCalled ==
  \E k \in DOMAIN ut_requests : ut_requests[k].endpoint = UpdateEndpoint

C9_FailedBucketIsEmptyContribution ==
  /\ ~ag_partial
  /\ (ag_pc = "done" /\ ag_calls # <<>>) =>
       /\ ag_calls = Buckets(ag_view)
       /\ ~ag_partial =>
            \A k \in DOMAIN all_tickets :
              \E j \in DOMAIN _tickets : _tickets[j] = all_tickets[k]

(***************************************************************************)
(* C10: an exception raised while one kind's document is generated or      *)
(* uploaded is counted as exactly one failure for that kind and does not   *)
(* end the run: every later kind is still processed, and the failed        *)
(* counter equals the number of kinds that failed.                         *)
(***************************************************************************)
RaisedKinds == {k \in Kinds : kind_raised[k]}

C11_SkipStep ==
  (pub_pc = "loop" /\ kind_idx <= NumKinds /\ kind_idx' = kind_idx + 1) =>
    /\ ~Truthy(entry_data[kind_idx]) => kind_outcome'[kind_idx] = "skipped"
    /\ kind_outcome'[kind_idx] = "skipped" =>
         /\ ~Truthy(entry_data[kind_idx]) \/ DocMethods[kind_idx] = "_get_proxmox_info"
         /\ kind_requests'[kind_idx] = <<>>
         /\ kind_requests' = kind_requests
         /\ kind_raised' = kind_raised
         /\ updates_successful' = updates_successful
         /\ updates_failed' = updates_failed

CreatedText(ticket) ==
  IF "ticket_created_at" \in DOMAIN ticket.d /\ ticket.d["ticket_created_at"].t = "str"
  THEN ticket.d["ticket_created_at"].s
  ELSE <<>>

\* The timestamps of the model are digit texts of at most one character:
\* their order is the order of the numbers they spell, the empty text first.
TimestampRank(text) == DecimalValue(text)

RecordsOf(list) == {list[k] : k \in DOMAIN list}

C12_SortedNewestFirst ==
  /\ \A k \in 1..(Len(_tickets) - 1) :
       TimestampRank(CreatedText(_tickets[k])) >= TimestampRank(CreatedText(_tickets[k + 1]))
  /\ (ag_pc = "done" /\ ag_calls # <<>> /\ ~ag_aborted) =>
       /\ Len(_tickets) = Len(all_tickets)
       /\ RecordsOf(_tickets) = RecordsOf(all_tickets)

\* The pass merged a record without created_at before a dated one and
\* stored them the other way round.
C12_Witness ==
  /\ ag_pc = "done"
  /\ Len(_tickets) = 2
  /\ Len(all_tickets) = 2
  /\ "ticket_created_at" \notin DOMAIN all_tickets[1].d
  /\ CreatedText(all_tickets[2]) = <<"2">>
  /\ _tickets = <<all_tickets[2], all_tickets[1]>>

(***************************************************************************)
(* C13: the New, Closed, Resolved and Maintenance views admit a ticket     *)
(* only when its raw status, read as text, is exactly "1", "5", "4" and    *)
(* "7" respectively.  This holds for the tickets of the bucket queried by  *)
(* status name as well: a ticket whose raw status is "New" is not admitted *)
(* by the New view.  Checked on the merged list and on the stored list in  *)
(* every state of a pass.                                                  *)
(***************************************************************************)
ExactCode(view) ==
  CASE view = "new" -> <<"1">>
    [] view = "closed" -> <<"5">>
    [] view = "resolved" -> <<"4">>
    [] view = "maintenance" -> <<"7">>

C13_ExactViewsOnlyExactCode ==
  ag_view \in {"new", "closed", "resolved", "maintenance"} =>
    /\ \A k \in DOMAIN all_tickets : RawStatusOf(all_tickets[k]) = ExactCode(ag_view)
    /\ \A k \in DOMAIN _tickets : RawStatusOf(_tickets[k]) = ExactCode(ag_view)

\* the New view finished a pass in which the "New" bucket returned a ticket
\* whose raw status is "New", refused it, and stored an admitted ticket
C13_Witness ==
  /\ ag_view = "new"
  /\ ag_pc = "done"
  /\ ag_calls = <<"1", "New">>
  /\ ag_refused
  /\ Len(_tickets) >= 1
  /\ _attr_native_value = Len(_tickets)

(***************************************************************************)
(* C14: when the mapping built for every cap from 25 down to 1 measures at *)
(* least the threshold of 14000, the encoder goes on to cap 0 and returns  *)
(* the mapping of the empty candidate: the summary fields only, with       *)
(* displayed_tickets = 0, and no per-ticket key.                           *)
(***************************************************************************)
EveryCapTooLarge ==
  \A cap \in 1..InitialMaxTickets :
    BuildAttributes(enc_tickets, enc_include, cap).attr_size >= SizeThreshold

C14_EmptyCandidateWhenNothingFits ==
  (enc_pc = "returned" /\ EveryCapTooLarge) =>
    /\ enc_attributes.displayed_tickets = 0
    /\ enc_attributes.flattened = 0
    /\ enc_attributes.tickets \in {-1, 0}
    /\ enc_attributes.total_tickets = Len(enc_tickets)

(***************************************************************************)
(* C15: for every input sequence the returned mapping has total_tickets    *)
(* equal to the length of the full input, displayed_tickets equal to the   *)
(* number of records the mapping represents (in the flat keys, and in the  *)
(* tickets array when it is included), and displayed_tickets at most       *)
(* min(25, total_tickets).                                                 *)
(***************************************************************************)
C15_SummaryCounts ==
  enc_pc = "returned" =>
    /\ enc_attributes.total_tickets = Len(enc_tickets)
    /\ enc_attributes.displayed_tickets = enc_attributes.flattened
    /\ enc_include => enc_attributes.tickets = enc_attributes.displayed_tickets
    /\ enc_attributes.displayed_tickets <= InitialMaxTickets
    /\ enc_attributes.displayed_tickets <= enc_attributes.total_tickets

\* more than 25 tickets were given and the encoder shrank below the cap of 25
C15_Witness ==
  /\ enc_pc = "returned"
  /\ Len(enc_tickets) > InitialMaxTickets
  /\ enc_attributes.total_tickets = Len(enc_tickets)
  /\ enc_attributes.displayed_tickets \in 2..(InitialMaxTickets - 1)
  /\ enc_attributes.attr_size < SizeThreshold

(***************************************************************************)
(* C16: across any sequence of requests and closes on one client, every    *)
(* request is sent on a session that is open when the request starts.  The *)
(* session is created by the first request, reused by later requests while *)
(* it is open, created anew by the first request after a close, and a      *)
(* session that is still open is never replaced.                           *)
(***************************************************************************)
SessionOpen(session) == session # NoSession /\ ~session.closed

C16_SessionStep ==
  /\ \A c \in Callers :
       (inflight[c] = NoRequest /\ inflight'[c] # NoRequest) =>
         /\ SessionOpen(_session')
         /\ inflight'[c].session = _session'.id
         /\ IF SessionOpen(_session)
            THEN _session' = _session /\ sessionsCreated' = sessionsCreated
            ELSE /\ _session'.id = sessionsCreated + 1
                 /\ sessionsCreated' = sessionsCreated + 1
  /\ SessionOpen(_session) => (_session'.id = _session.id /\ sessionsCreated' = sessionsCreated)
  /\ _session'.id <= sessionsCreated'

C16_SessionLifecycle == [][C16_SessionStep]_vars

\* after a close, a request went out on the second session while a request
\* started on the first session is still in flight
C16_Witness ==
  /\ sessionsCreated = 2
  /\ _session = [id |-> 2, closed |-> FALSE]
  /\ \E c, d \in Callers :
       /\ inflight[c] # NoRequest /\ inflight[c].session = 2
       /\ inflight[d] # NoRequest /\ inflight[d].session = 1

(***************************************************************************)
(* C17: for a GET and for a POST alike, _request classifies a received     *)
(* response in this order: a status of 400 or more gives                   *)
(* {"success": False, "message": "HTTP <status>: <body text>"} even when   *)
(* the body is valid JSON; otherwise a body that response.json() cannot    *)
(* parse gives {"success": False, "message": <raw body text>}; otherwise   *)
(* the parsed body is returned as it is, also without a success field.     *)
(***************************************************************************)
HttpMessage(status, text) ==
  <<"H", "T", "T", "P", " ">> \o IntToStr(status) \o <<":", " ">> \o text

C17_ClassificationOrder ==
  \A c \in Callers :
    lastOutcome[c].kind = "Response" =>
      /\ answered[c] \in {"GET", "POST"}
      /\ ~returned[c].raised
      /\ returned[c].value =
           IF lastOutcome[c].status >= 400
           THEN PyDict([success |-> PyBool(FALSE),
                        message |-> PyStr(HttpMessage(lastOutcome[c].status, lastOutcome[c].text))])
           ELSE IF ~lastOutcome[c].isJson
                THEN PyDict([success |-> PyBool(FALSE), message |-> PyStr(lastOutcome[c].text)])
                ELSE lastOutcome[c].json

\* a POST answered 500 with a JSON body became the HTTP envelope, and a GET
\* answered 200 with a JSON body without success field was returned as it is
C17_Witness ==
  \E c, d \in Callers :
    /\ answered[c] = "POST"
    /\ lastOutcome[c] = ResponseOutcome(500, TextJson, TRUE, SuccessBody)
    /\ returned[c].value.d.message = PyStr(<<"H", "T", "T", "P", " ", "5", "0", "0", ":", " ", "{", "}">>)
    /\ answered[d] = "GET"
    /\ lastOutcome[d] = ResponseOutcome(200, <<>>, TRUE, NoSuccessBody)
    /\ returned[d].value = NoSuccessBody

(***************************************************************************)
(* C18: every request that _request sends, GET or POST, carries an api_key *)
(* (in the query parameters of a GET, in the JSON body of a POST): the     *)
(* client's api_key when the caller's data holds none, and the caller's    *)
(* own api_key, unchanged, when the data holds one.  The caller's other    *)
(* fields are sent as given.                                               *)
(***************************************************************************)
SentFields(request) == IF request.method = "GET" THEN request.params ELSE request.body

GivenFields(data) == IF data = PyNone THEN <<>> ELSE data.d

C18_ApiKeyAlwaysSent ==
  \A c \in Callers :
    inflight[c] # NoRequest =>
      LET sent == SentFields(inflight[c])
          given == GivenFields(call_data[c])
      IN /\ "api_key" \in DOMAIN sent
         /\ sent["api_key"] = IF "api_key" \in DOMAIN given THEN given["api_key"] ELSE ApiKey
         /\ \A k \in DOMAIN given : sent[k] = given[k]
         /\ DOMAIN sent = DOMAIN given \cup {"api_key"}

\* a POST whose caller supplied its own api_key and a GET called without data
\* are both on the wire
C18_Witness ==
  \E c, d \in Callers :
    /\ inflight[c] # NoRequest
    /\ inflight[c].method = "POST"
    /\ call_data[c] = PyDict([client_id |-> ClientId, api_key |-> PyStr(<<"c">>)])
    /\ inflight[c].body["api_key"] = PyStr(<<"c">>)
    /\ inflight[d] # NoRequest
    /\ inflight[d].method = "GET"
    /\ call_data[d] = PyNone
    /\ inflight[d].params = ("api_key" :> ApiKey)

(***************************************************************************)
(* C19: map_ticket_status equals the reference mapping for every input:    *)
(* null gives "Unknown"; a key of the table {"1", "2", "3", "4", "5", New, *)
(* Open, On Hold, Resolved, Closed} gives its table value; otherwise a     *)
(* value that parses as an integer strictly greater than 5 gives           *)
(* "Waiting..."; otherwise the raw value is returned unchanged.            *)
(***************************************************************************)
ReferenceTable ==
  [k \in {<<"1">>, <<"2">>, <<"3">>, <<"4">>, <<"5">>, StrNew, StrOpen, StrOnHold, StrResolved,
          StrClosed} |->
     CASE k = <<"1">> -> StrNew
       [] k = <<"2">> -> StrOpen
       [] k = <<"3">> -> StrOnHold
       [] k = <<"4">> -> StrResolved
       [] k = <<"5">> -> StrClosed
       [] OTHER -> k]

ReferenceStatus(status) ==
  LET text == PyStrOf(status)
      parsed == ParseInt(text)
  IN IF status = PyNone THEN StrUnknown
     ELSE IF text \in DOMAIN ReferenceTable THEN ReferenceTable[text]
     ELSE IF parsed.ok /\ parsed.i > 5 THEN StrWaiting
     ELSE text

C19_StatusMapEqualsReference ==
  ms_pc = "returned" => ms_result = Returns(ReferenceStatus(ms_status))

(***************************************************************************)
(* C20: for every ticket view sensor, after any sequence of poll cycles -- *)
(* cycles with failed buckets, cycles whose sort raises, cycles that find  *)
(* no client, and cycles of the same sensor that overlap and interleave at *)
(* their awaits -- the native value equals the length of the stored list   *)
(* of records in every state between awaits.                               *)
(***************************************************************************)
C20_NativeValueIsLength == _attr_native_value = Len(_tickets)

\* two cycles of the same sensor are suspended in get_tickets, one of them
\* holding a record in its local list, while the sensor shows the two records
\* an earlier cycle stored
C20_Witness ==
  /\ \A p \in Cycles : poll_pc[p] = "fetching"
  /\ poll_tickets[1] # <<>>
  /\ poll_tickets[2] = <<>>
  /\ poll_last = "stored"
  /\ Len(_tickets) = 2
  /\ _attr_native_value = 2

(***************************************************************************)
(* C21: every public operation above _request returns a normal value and   *)
(* lets no exception escape, for every remote response, including a JSON   *)
(* body that is well formed but is no object (an array).  Checked here on  *)
(* update_document, for every document id and every answer of the server.  *)
(***************************************************************************)
C21_NoExceptionEscapes ==
  ud_document_id # NotCalled => ~ud_result.raised

(***************************************************************************)
(* C22: each of the five views exposes its result through the bounded      *)
(* encoder, so the mapping a view exposes has passed the measure-and-      *)
(* shrink size check: it is the encoder's mapping for the view's tickets,  *)
(* whose measured size is under the threshold unless the cap went down to  *)
(* one ticket.                                                             *)
(***************************************************************************)
C22_ExposedThroughEncoder ==
  exp_pc = "returned" =>
    /\ exp_attributes = build_ticket_attributes_with_size_check(exp_tickets, FALSE)
    /\ exp_attributes.attr_size < SizeThreshold \/ exp_attributes.displayed_tickets <= 1

(***************************************************************************)
(* C23: in a publish run that reaches the document loop, the timestamp     *)
(* last_document_update is written exactly once, after the last kind has   *)
(* been processed and so never before an update call of the run, whatever  *)
(* the number of successes, failures and skips.                            *)
(***************************************************************************)
ReachedLoop == pub_pc = "loop" \/ (pub_pc = "done" /\ kind_idx > 1)

C24_OnlyThisCyclesRecords ==
  rf_pc = "ended" =>
    /\ \A k \in DOMAIN _tickets : _tickets[k] \in rf_seen
    /\ _attr_native_value = Len(_tickets)
    /\ rf_failed => (_tickets = <<>> /\ _attr_native_value = 0)

\* the sensor held two records, and a cycle in which every call failed has
\* ended and left none
C24_Witness ==
  /\ rf_pc = "ended"
  /\ rf_before = 2
  /\ rf_failed
  /\ rf_seen = {}
  /\ _tickets = <<>>
  /\ _attr_native_value = 0

(***************************************************************************)
(* C25: for an input of 40 ticket records, each with a details field of    *)
(* 500 characters, the encoder (25 candidates at most, ceiling 16384)      *)
(* returns a mapping with displayed_tickets < 25 and a serialized size     *)
(* below 14000.                                                            *)
(***************************************************************************)
ScenarioLength == Len(enc_tickets)

FortyDetailedRecords ==
  /\ enc_pc = "returned"
  /\ ScenarioLength = MaxRecords
  /\ \A k \in DOMAIN enc_tickets : enc_tickets[k].ticket_details.len = 500

C26_OneCallPerBucketInOrder ==
  /\ ag_view = NoView => ag_calls = <<>>
  /\ ag_view # NoView =>
       /\ Len(ag_calls) <= Len(Buckets(ag_view))
       /\ \A k \in DOMAIN ag_calls : ag_calls[k] = Buckets(ag_view)[k]
       /\ \A j, k \in DOMAIN ag_calls : j # k => ag_calls[j] # ag_calls[k]
       /\ ag_pc = "fetching" => ag_calls # <<>>
       /\ (ag_pc = "done" /\ ag_calls # <<>>) => ag_calls = Buckets(ag_view)

\* a pass ended in which the iteration of some bucket raised part-way; every
\* bucket was queried once all the same
C26_Witness ==
  /\ ag_pc = "done"
  /\ ag_partial
  /\ Len(ag_calls) > 1
  /\ ag_calls = Buckets(ag_view)

(***************************************************************************)
(* C27: the encoder returns the mapping built for the first cap, tried in  *)
(* decreasing order from 25, whose measured size is under the threshold;   *)
(* the mapping represents exactly the first cap records of the input, in   *)
(* input order, under the positions 1..displayed_tickets.                  *)
(***************************************************************************)
Fits(cap) == BuildAttributes(enc_tickets, enc_include, cap).attr_size < SizeThreshold

SomeCapFits == \E cap \in 1..InitialMaxTickets : Fits(cap)

KindsCounted(as) == Cardinality({k \in Kinds : kind_outcome[k] = as})

ProcessedConfigured == Cardinality({k \in Kinds : k < kind_idx /\ Truthy(entry_data[k])})

CloseSettled ==
  /\ ut_args.called
  /\ ut_args.status \in ClosedStatuses
  /\ CloseAnswered
  /\ ~ut_responses[1].raised
  /\ ut_responses[1].value.t = "dict"
  /\ \/ Truthy(DictGet(ut_responses[1].value, "success", PyNone))
     \/ IsFailure(ut_responses[1]) /\ ~Mentions404(ut_responses[1])

PriorityTransmitted ==
  \E k \in DOMAIN ut_requests : "ticket_priority" \in DOMAIN ut_requests[k].data.d

CreationInFlight == \E c \in SetCalls : set_pc[c] = "creating"

C30_ReadyOnlyWhenNoCreation ==
  ticket_native_value = StateReady => ~CreationInFlight
====
